---- MODULE Spec2Model ----
(***************************************************************************)
(* librarian: the memoizing wrapper around a retriever's batch search      *)
(* (librarian/retriever/retriever_base.py) and the iterative multi-        *)
(* retriever searcher (kylin/kylin_searcher.py).                           *)
(*                                                                         *)
(* Python values are encoded as follows: None is the empty tuple, a value  *)
(* that may be None is wrapped in a one-element tuple (Some), a list or a  *)
(* tuple is a sequence, a dict is a record, a str is a string.             *)
(***************************************************************************)
EXTENDS Integers, Sequences, FiniteSets, TLC

\* ------------------------------------------------------------------ bounds
\* longest batch of queries handed to the cached search
MaxBatch == 2
\* largest capacity of a store that is exercised directly
MaxCapacity == 2
\* longest sequence of uses of a store that is exercised directly
MaxOps == 4
\* largest retry_times given to a web retriever
MaxRetry == 3
\* longest numbered list the extraction collaborator answers with
MaxItems == 3
\* largest number of candidates, window_size and step_size given to the ranker
MaxCandidates == 4
\* largest count of numbers in a response of the ranking model
MaxMentions == 2

\* --------------------------------------------------------- program constants
\* PersistentCacheConfig(maxsize=...) of RETRIEVAL_CACHE
maxsize == 10000000

None == <<>>
Some(x) == <<x>>

\* the query strings: what callers search for and the rewrite collaborator answers
Queries == {"q1", "q2"}
\* the atomic information needs handed to inner_search
Needs == {"q1"}
\* the configured retrievers, in configuration order (self.retrievers)
Retrievers == <<"bing", "ddg">>
RetrieverSet == {Retrievers[i] : i \in DOMAIN Retrievers}
\* values of the DISABLE_CACHE environment variable ("unset": not in os.environ)
EnvValues == {"unset", "", "1"}
\* the values among them a searcher process is started with
SearcherEnvValues == {"unset", "1"}
\* the per-call disable_cache keyword: "absent" when the caller does not pass it
DisableArgs == {"absent", "False", "True"}
\* the other keyword arguments a caller passes, in call order
KwargChoices == {<<>>, << <<"top_k", "10">> >>}

VARIABLES
    env,                \* os.environ DISABLE_CACHE
    cache,              \* RETRIEVAL_CACHE: entries [key, val], least recently used first
    call,               \* observation of the last call of the cached search
    repeated,           \* the last call had the arguments of the call before it
    rewrite, verify, summary_context, disable_cache,  \* KylinLLMSearcher fields
    pc,                 \* position of inner_search
    query,              \* the atomic query of the running inner_search
    turn_num,           \* inner_search local, 0-based
    idx,                \* index of the next retriever of the round, 1-based
    contexts,           \* inner_search local
    retrieval_history,  \* inner_search local
    rewriteLog,         \* calls of the rewrite collaborator made by this inner_search
    searchLog,          \* calls of retriever.search made by this inner_search
    verifyLog,          \* calls of the verification collaborator made by this inner_search
    returned,           \* what inner_search returned (None while it runs or when it raised)
    storeUp,            \* the backing store of RETRIEVAL_CACHE can be read and written
    capacity,           \* PersistentCacheConfig.maxsize of the store
    storeOp,            \* the last get or put made on the store directly
    useLog,             \* the gets that hit and the puts made on the store, oldest first
    backendUp,          \* the underlying search of the retrievers answers
    extract_info,       \* self.extract_info
    spc,                \* position of search(): "idle", "loop", "inner", "done", "raised"
    question,           \* the question given to search()
    info_needed,        \* the atomic needs of the question
    need,               \* position in info_needed of the for loop of search()
    pool,               \* the local contexts of search()
    search_track,       \* the local search_track of search()
    result,             \* what search() returned (None while it runs or when it raised)
    wpc,                \* position of WebRetriever._search: "idle", "loop", "call", "done", "raised"
    wquery,             \* the list of queries of _search
    retry_times,        \* retry_times of the call
    wpos,               \* position in wquery of the for loop
    attempts,           \* calls of search_item made so far, per query started
    waits,              \* waits made between attempts: query position and duration
    wresults,           \* the local results of _search
    wreturned,          \* what _search returned (None while it runs or when it raised)
    apc,                \* position of answer(): "idle", "loop", "search", "done", "raised"
    questions,          \* the questions given to answer()
    apos,               \* position in questions of the for loop of answer()
    answer_responses,   \* the local responses of answer()
    search_tracks,      \* the local search_tracks of answer()
    areturned,          \* what answer() returned (None while it runs or when it raised)
    threads,            \* the worker threads of async_search: position and locals of wrapper
    keyed,              \* the cache keys computed so far: arguments and key, oldest first
    parsed,             \* the last extraction: the list answered and the needs taken from it
    ranking,            \* RankGPTRanker._rank: position, arguments and locals
    assistant           \* DocumentChatAssistant: its retriever's passages and last calls

cacheVars == <<env, cache, call, repeated>>
storeVars == <<storeUp, capacity, storeOp, useLog, backendUp>>
webVars == <<wpc, wquery, retry_times, wpos, attempts, waits, wresults, wreturned>>
sessionVars == <<extract_info, spc, question, info_needed, need, pool, search_track, result>>
cfgVars == <<rewrite, verify, summary_context, disable_cache>>
loopVars == <<pc, query, turn_num, idx, contexts, retrieval_history,
              rewriteLog, searchLog, verifyLog, returned>>
answerVars == <<apc, questions, apos, answer_responses, search_tracks, areturned>>
threadVars == <<threads>>
keyVars == <<keyed>>
extractVars == <<parsed>>
rankVars == <<ranking>>
docVars == <<assistant>>
componentVars == <<keyVars, extractVars, rankVars, docVars>>
nonWebVars == <<cacheVars, cfgVars, loopVars, storeVars, sessionVars, answerVars,
               threadVars, componentVars>>
vars == <<cacheVars, cfgVars, loopVars, storeVars, sessionVars, webVars, answerVars,
         threadVars, componentVars>>

\* ------------------------------------------------------------ Python helpers
\* bool(x) of the values a disable_cache flag can hold
Truthy(x) == x \notin {"False", "", "unset"}

Batches == UNION {[1..n -> Queries] : n \in 0..MaxBatch}
\* what a caller may pass as query: a list of queries or a bare str
QueryInputs == {[kind |-> "list", value |-> b] : b \in Batches}
               \cup {[kind |-> "str", value |-> b] : b \in Queries}

\* ------------------------------------------------------------- cache store
\* librarian.cache.PersistentCache, a MutableMapping with LRU eviction. Nothing but
\* line 67 of the wrapper writes to RETRIEVAL_CACHE, so the store starts empty.
\* position of key k in the store, 0 when absent
Pos(c, k) == IF \E i \in DOMAIN c : c[i].key = k
             THEN CHOOSE i \in DOMAIN c : c[i].key = k
             ELSE 0

Without(c, i) == [j \in 1..(Len(c) - 1) |-> IF j < i THEN c[j] ELSE c[j + 1]]

\* RETRIEVAL_CACHE.get(k, default): the stored value, or default when absent
CacheGet(c, k, default) == IF Pos(c, k) = 0 THEN default ELSE Some(c[Pos(c, k)].val)

\* a get leaves the recency of the entry alone
MutTouchNoUse(c, k) == c

\* the store after a get of k: a read is a use, the entry becomes most recent
CacheTouch(c, k) == IF Pos(c, k) = 0 THEN c
                    ELSE Append(Without(c, Pos(c, k)), c[Pos(c, k)])

\* a put at capacity inserts without evicting
MutPutNoEvict(c, k, v) == Append(c, [key |-> k, val |-> v])

\* RETRIEVAL_CACHE[k] = v: replace, or insert after evicting the LRU entry at capacity
CachePut(c, k, v) ==
    IF Pos(c, k) # 0 THEN Append(Without(c, Pos(c, k)), [key |-> k, val |-> v])
    ELSE IF Len(c) >= capacity THEN Append(Tail(c), [key |-> k, val |-> v])
    ELSE Append(c, [key |-> k, val |-> v])

\* keys and values of a client that uses the store directly
StoreKeys == {"A", "B", "C"}
StoreValues == {"v"}

NoOp == [kind |-> "none", key |-> "none", before |-> <<>>, got |-> None]

\* RETRIEVAL_CACHE.get(k, None) by a direct client
StoreGet(k) ==
    /\ Len(useLog) < MaxOps
    /\ storeOp' = [kind |-> "get", key |-> k, before |-> cache,
                   got |-> CacheGet(cache, k, None)]
    /\ cache' = CacheTouch(cache, k)
    /\ useLog' = IF Pos(cache, k) = 0 THEN useLog
                 ELSE Append(useLog, [kind |-> "get", key |-> k])
    /\ UNCHANGED <<storeUp, capacity, backendUp>>

\* RETRIEVAL_CACHE[k] = v by a direct client
StorePut(k, v) ==
    /\ Len(useLog) < MaxOps
    /\ storeOp' = [kind |-> "put", key |-> k, before |-> cache, got |-> None]
    /\ cache' = CachePut(cache, k, v)
    /\ useLog' = Append(useLog, [kind |-> "put", key |-> k])
    /\ UNCHANGED <<storeUp, capacity, backendUp>>

\* ------------------------------------------------------- underlying search
\* the documents a retriever holds for a query: a deterministic backend
NumTexts(self, q) == IF self = "ddg" /\ q = "q2" THEN 2 ELSE 1
TextOf(self, q, i) == <<"text", self, q, IF i = 1 THEN "1" ELSE IF i = 2 THEN "2" ELSE "3">>
SourceOf(self, q, i) == <<"source", self, q, IF i = 1 THEN "1" ELSE IF i = 2 THEN "2" ELSE "3">>

UrlOf(self, q, i) == <<"url", self, q, IF i = 1 THEN "1" ELSE IF i = 2 THEN "2" ELSE "3">>

\* a query for which the backends break their contract: the first returns both
\* identifier fields, the second returns neither
Malformed == "q3"

\* one result group for one query: texts plus "urls" (web) or "indices" (local)
SearchItem(self, q) ==
    IF q = Malformed /\ self # "bing"
    THEN [texts |-> [i \in 1..NumTexts(self, q) |-> TextOf(self, q, i)]]
    ELSE IF q = Malformed
    THEN [texts |-> [i \in 1..NumTexts(self, q) |-> TextOf(self, q, i)],
          indices |-> [i \in 1..NumTexts(self, q) |-> SourceOf(self, q, i)],
          urls |-> [i \in 1..NumTexts(self, q) |-> UrlOf(self, q, i)]]
    ELSE IF self = "bing"
    THEN [texts |-> [i \in 1..NumTexts(self, q) |-> TextOf(self, q, i)],
          urls |-> [i \in 1..NumTexts(self, q) |-> SourceOf(self, q, i)]]
    ELSE [texts |-> [i \in 1..NumTexts(self, q) |-> TextOf(self, q, i)],
          indices |-> [i \in 1..NumTexts(self, q) |-> SourceOf(self, q, i)]]

\* func(self, query, **search_kwargs): one result group per query, in order
Func(self, batch) == [i \in 1..Len(batch) |-> SearchItem(self, batch[i])]

\* ------------------------------------------------------------ batched_cache
\* lexicographic order of the keyword names that occur
NameOrder == <<"cfg", "no_preprocess", "query", "top_k">>
NameRank(n) == CHOOSE i \in DOMAIN NameOrder : NameOrder[i] = n

RECURSIVE Insert(_, _)
Insert(item, sorted) ==
    IF sorted = <<>> THEN <<item>>
    ELSE IF NameRank(item[1]) <= NameRank(Head(sorted)[1]) THEN <<item>> \o sorted
    ELSE <<Head(sorted)>> \o Insert(item, Tail(sorted))

\* sorted(kwargs.items())
RECURSIVE SortedItems(_)
SortedItems(items) ==
    IF items = <<>> THEN <<>> ELSE Insert(Head(items), SortedItems(Tail(items)))

\* the keyword items are kept in the order the caller gave them
MutHashkeyUnsorted(cfg, q, search_kwargs) ==
    << <<>>, << <<"cfg", cfg>>, <<"query", q>> >> \o search_kwargs >>

\* hashkey(*args, **kwargs) called as hashkey(cfg=self.cfg, query=q, **search_kwargs)
hashkey(cfg, q, search_kwargs) ==
    << <<>>, SortedItems(<< <<"cfg", cfg>>, <<"query", q>> >> \o search_kwargs) >>

\* the keyword parameters a caller may give beside query and disable_cache, in the
\* order it gives them
KeyKwargs ==
    {<<>>,
     << <<"top_k", "10">> >>, << <<"top_k", "5">> >>, << <<"no_preprocess", "True">> >>,
     << <<"top_k", "10">>, <<"no_preprocess", "True">> >>,
     << <<"no_preprocess", "True">>, <<"top_k", "10">> >>,
     << <<"top_k", "5">>, <<"no_preprocess", "True">> >>,
     << <<"no_preprocess", "True">>, <<"top_k", "5">> >>}

\* no _rank running
IdleRanking ==
    [pc |-> "idle", n |-> 0, window_size |-> 1, step_size |-> 1, indices |-> <<>>,
     start_idx |-> 0, end_idx |-> 0, windows |-> <<>>, piece |-> <<>>, piece_n |-> 0]

\* DocumentChatAssistant.__init__, lines 45-55: the retriever is empty; chunker and
\* reranker tell whether the configuration loads one
NewAssistant(chunker, reranker) ==
    [chunker |-> chunker, reranker |-> reranker, passages |-> <<>>,
     attached |-> <<>>, out |-> <<>>]

\* no key computed yet, and the other components not in use
ComponentsIdle ==
    /\ keyed = <<>>
    /\ parsed = [extract |-> FALSE, question |-> "q1", items |-> <<>>,
                 response |-> <<>>, info_needed |-> <<"q1">>]
    /\ ranking = IdleRanking
    /\ assistant = NewAssistant(TRUE, TRUE)

\* line 57: the key of one query of a call is computed; the last two are kept
HashKey(cfg, q, search_kwargs) ==
    /\ keyed' = (IF Len(keyed) = 2 THEN Tail(keyed) ELSE keyed)
                 \o <<[cfg |-> cfg, query |-> q, kw |-> search_kwargs,
                       key |-> hashkey(cfg, q, search_kwargs)]>>
    /\ UNCHANGED <<cacheVars, cfgVars, loopVars, storeVars, sessionVars, webVars,
                   answerVars, threadVars, extractVars, rankVars, docVars>>

\* the environment flag wins over the keyword
MutEnvOverrides(dc, e) ==
    IF e \notin {"unset", ""} THEN e ELSE IF dc # "absent" THEN dc ELSE "False"

\* search_kwargs.pop("disable_cache", os.environ.get("DISABLE_CACHE", False))
PopDisableCache(dc, e) ==
    IF dc # "absent" THEN dc ELSE IF e # "unset" THEN e ELSE "False"

\* keys = [hashkey(cfg=self.cfg, query=q, **search_kwargs) for q in query]
Keys(self, batch, kw) == [i \in 1..Len(batch) |-> hashkey(self, batch[i], kw)]

\* x[0] of the value a get returned: None is not subscriptable
Subscriptable(got) == got # None
Item0(got) == Some(got[1][1])

\* results = [RETRIEVAL_CACHE.get(k, None)[0] for k in keys]; the comprehension
\* stops at the first get whose value cannot be subscripted, or that raises because
\* the store failed: nothing in the wrapper catches either
RECURSIVE GetAll(_, _)
GetAll(c, keys) ==
    IF keys = <<>>
    THEN [cache |-> c, results |-> <<>>, gets |-> <<>>, error |-> "none"]
    ELSE IF ~storeUp
    THEN [cache |-> c, results |-> <<>>, gets |-> <<Head(keys)>>, error |-> "StoreError"]
    ELSE LET got == CacheGet(c, Head(keys), None)
             c1 == CacheTouch(c, Head(keys))
         IN IF ~Subscriptable(got)
            THEN [cache |-> c1, results |-> <<>>, gets |-> <<Head(keys)>>,
                  error |-> "TypeError"]
            ELSE LET rest == GetAll(c1, Tail(keys))
                 IN [cache |-> rest.cache,
                     results |-> <<Item0(got)>> \o rest.results,
                     gets |-> <<Head(keys)>> \o rest.gets,
                     error |-> rest.error]

\* new_indices = [n for n, r in enumerate(results) if r is None]
RECURSIVE NewIndicesFrom(_, _)
NewIndicesFrom(results, n) ==
    IF n > Len(results) THEN <<>>
    ELSE (IF results[n] = None THEN <<n>> ELSE <<>>) \o NewIndicesFrom(results, n + 1)
NewIndices(results) == NewIndicesFrom(results, 1)

\* new_query = [q for q, r in zip(query, results) if r is None]
NewQuery(batch, results) ==
    [j \in 1..Len(NewIndices(results)) |-> batch[NewIndices(results)[j]]]

Min(a, b) == IF a < b THEN a ELSE b

\* for n, r in zip(new_indices, new_results): results[n] = r; CACHE[keys[n]] = r, keys[n]
RECURSIVE WriteBack(_, _, _, _, _)
WriteBack(c, results, keys, new_indices, new_results) ==
    IF new_indices = <<>> \/ new_results = <<>>
    THEN [cache |-> c, results |-> results, puts |-> <<>>, error |-> "none"]
    ELSE IF ~storeUp
    THEN [cache |-> c, results |-> [results EXCEPT ![Head(new_indices)] =
                                        Some(Head(new_results))],
          puts |-> <<keys[Head(new_indices)]>>, error |-> "StoreError"]
    ELSE LET n == Head(new_indices)
             r == Head(new_results)
             rest == WriteBack(CachePut(c, keys[n], <<r, keys[n]>>),
                               [results EXCEPT ![n] = Some(r)],
                               keys, Tail(new_indices), Tail(new_results))
         IN [cache |-> rest.cache, results |-> rest.results,
             puts |-> <<keys[n]>> \o rest.puts, error |-> rest.error]

\* the cached part of wrapper, lines 56-69
SearchFromCache(self, c, batch, kw) ==
    LET keys == Keys(self, batch, kw)
        looked == GetAll(c, keys)
        new_query == NewQuery(batch, looked.results)
        new_indices == NewIndices(looked.results)
        wb == IF new_query # <<>>
              THEN WriteBack(looked.cache, looked.results, keys, new_indices,
                             Func(self, new_query))
              ELSE [cache |-> looked.cache, results |-> looked.results, puts |-> <<>>,
                    error |-> "none"]
    IN IF looked.error # "none"
       THEN [bypass |-> FALSE, status |-> looked.error, results |-> <<>>,
             cache |-> looked.cache, gets |-> looked.gets, puts |-> <<>>,
             funcArgs |-> <<>>]
       ELSE IF new_query # <<>> /\ ~backendUp
       THEN [bypass |-> FALSE, status |-> "BackendError", results |-> <<>>,
             cache |-> looked.cache, gets |-> looked.gets, puts |-> <<>>,
             funcArgs |-> <<new_query>>]
       ELSE IF wb.error # "none"
       THEN [bypass |-> FALSE, status |-> wb.error, results |-> <<>>,
             cache |-> wb.cache, gets |-> looked.gets, puts |-> wb.puts,
             funcArgs |-> <<new_query>>]
       ELSE [bypass |-> FALSE,
             status |-> IF \A i \in DOMAIN wb.results : wb.results[i] # None
                        THEN "ok" ELSE "AssertionError",
             results |-> IF \A i \in DOMAIN wb.results : wb.results[i] # None
                         THEN [i \in DOMAIN wb.results |-> wb.results[i][1]] ELSE <<>>,
             cache |-> wb.cache, gets |-> looked.gets, puts |-> wb.puts,
             funcArgs |-> IF new_query # <<>> THEN <<new_query>> ELSE <<>>]

\* the direct search stores what it computed
MutDirectSearchWrites(self, c, batch) ==
    [bypass |-> TRUE, status |-> "ok", results |-> Func(self, batch),
     cache |-> IF batch = <<>> THEN c
               ELSE CachePut(c, hashkey(self, batch[1], <<>>),
                             <<SearchItem(self, batch[1]), hashkey(self, batch[1], <<>>)>>),
     gets |-> <<>>, puts |-> <<>>, funcArgs |-> <<batch>>]

\* a failure of the underlying search is answered with an empty result list
MutDirectSearchSwallows(self, c, batch) ==
    [bypass |-> TRUE, status |-> "ok",
     results |-> IF batch # <<>> /\ ~backendUp THEN <<>> ELSE Func(self, batch),
     cache |-> c, gets |-> <<>>, puts |-> <<>>, funcArgs |-> <<batch>>]

\* the direct search, lines 53-54: return func(self, query, **search_kwargs); an
\* error raised by func leaves the wrapper
DirectSearch(self, c, batch) ==
    IF batch # <<>> /\ ~backendUp
    THEN [bypass |-> TRUE, status |-> "BackendError", results |-> <<>>, cache |-> c,
          gets |-> <<>>, puts |-> <<>>, funcArgs |-> <<batch>>]
    ELSE [bypass |-> TRUE, status |-> "ok", results |-> Func(self, batch), cache |-> c,
          gets |-> <<>>, puts |-> <<>>, funcArgs |-> <<batch>>]

\* lines 46-47: a bare str query becomes a one-element list
AsList(input) == IF input.kind = "str" THEN <<input.value>> ELSE input.value

\* wrapper(self, query, **search_kwargs) on store c with DISABLE_CACHE = e
Wrapper(self, c, e, batch, dc, kw) ==
    IF Truthy(PopDisableCache(dc, e))
    THEN DirectSearch(self, c, batch)
    ELSE SearchFromCache(self, c, batch, kw)

\* what is observed of one call of the cached search
Observe(self, c, e, batch, dc, kw) ==
    [self |-> self, query |-> batch, dc |-> dc, kw |-> kw, before |-> c,
     up |-> storeUp, backend |-> backendUp, out |-> Wrapper(self, c, e, batch, dc, kw)]

NoCall == [self |-> "none", query |-> <<>>, dc |-> "absent", kw |-> <<>>,
           before |-> <<>>, up |-> TRUE, backend |-> TRUE,
           out |-> DirectSearch("none", <<>>, <<>>)]

\* two calls with identical retriever, queries and parameters
SameArguments(a, b) ==
    /\ a.self = b.self
    /\ a.query = b.query
    /\ a.dc = b.dc
    /\ a.kw = b.kw

\* a caller other than the searcher runs retriever.search(query, **kwargs)
CachedSearch(self, input, dc, kw) ==
    /\ call' = Observe(self, cache, env, AsList(input), dc, kw)
    /\ repeated' = SameArguments(call, call')
    /\ cache' = call'.out.cache
    /\ UNCHANGED env

\* ------------------------------------------------- async_search worker threads
\* asyncio.to_thread(self.search, query=query, **search_kwargs): each call of
\* async_search runs the wrapper in a worker thread of the default executor
Threads == {"t1", "t2"}

\* a worker with no call to run
IdleThread ==
    [pc |-> "idle", self |-> "none", query |-> <<>>, dc |-> "absent", keys |-> <<>>,
     results |-> <<>>, new_indices |-> <<>>, new_results |-> <<>>, error |-> "none",
     out |-> <<>>, concurrent |-> FALSE]

Running(th) == th.pc \notin {"idle", "done", "raised"}
Finished(th) == th.pc \in {"done", "raised"}

\* one step of wrapper in a worker thread, on store c with DISABLE_CACHE = e:
\* lines 50-54, one get of line 58, lines 61-62, line 63, one turn of the loop
\* of lines 65-67, lines 68-69
WrapperStep(th, c, e) ==
    CASE th.pc = "start" ->
           IF Truthy(PopDisableCache(th.dc, e))
           THEN LET d == DirectSearch(th.self, c, th.query)
                IN [thread |-> [th EXCEPT !.pc = IF d.status = "ok" THEN "done"
                                                 ELSE "raised",
                                          !.error = IF d.status = "ok" THEN "none"
                                                    ELSE d.status,
                                          !.out = d.results],
                    cache |-> c]
           ELSE [thread |-> [th EXCEPT !.pc = "get",
                                       !.keys = Keys(th.self, th.query, <<>>)],
                 cache |-> c]
      [] th.pc = "get" ->
           IF Len(th.results) = Len(th.keys)
           THEN [thread |-> [th EXCEPT !.pc = IF NewQuery(th.query, th.results) # <<>>
                                              THEN "func" ELSE "assert",
                                       !.new_indices = NewIndices(th.results)],
                 cache |-> c]
           ELSE LET looked == GetAll(c, <<th.keys[Len(th.results) + 1]>>)
                IN IF looked.error # "none"
                   THEN [thread |-> [th EXCEPT !.pc = "raised",
                                               !.error = looked.error],
                         cache |-> looked.cache]
                   ELSE [thread |-> [th EXCEPT !.results = th.results \o looked.results],
                         cache |-> looked.cache]
      [] th.pc = "func" ->
           IF ~backendUp
           THEN [thread |-> [th EXCEPT !.pc = "raised", !.error = "BackendError"],
                 cache |-> c]
           ELSE [thread |-> [th EXCEPT !.pc = "put",
                                       !.new_results =
                                           Func(th.self, NewQuery(th.query, th.results))],
                 cache |-> c]
      [] th.pc = "put" ->
           IF th.new_indices = <<>> \/ th.new_results = <<>>
           THEN [thread |-> [th EXCEPT !.pc = "assert"], cache |-> c]
           ELSE LET wb == WriteBack(c, th.results, th.keys, <<Head(th.new_indices)>>,
                                    <<Head(th.new_results)>>)
                IN IF wb.error # "none"
                   THEN [thread |-> [th EXCEPT !.pc = "raised", !.error = wb.error],
                         cache |-> wb.cache]
                   ELSE [thread |-> [th EXCEPT !.results = wb.results,
                                               !.new_indices = Tail(th.new_indices),
                                               !.new_results = Tail(th.new_results)],
                         cache |-> wb.cache]
      [] th.pc = "assert" ->
           IF \A i \in DOMAIN th.results : th.results[i] # None
           THEN [thread |-> [th EXCEPT !.pc = "done",
                                       !.out = [i \in DOMAIN th.results |->
                                                    th.results[i][1]]],
                 cache |-> c]
           ELSE [thread |-> [th EXCEPT !.pc = "raised", !.error = "AssertionError"],
                 cache |-> c]

\* await retriever.async_search(query, disable_cache=dc) handed to worker t, which
\* runs this one call; the calls that run while another runs are marked as concurrent
AsyncSearch(t, self, batch, dc) ==
    /\ threads[t].pc = "idle"
    /\ threads' = [u \in Threads |->
                     IF u = t
                     THEN [IdleThread EXCEPT !.pc = "start", !.self = self,
                                             !.query = batch, !.dc = dc,
                                             !.concurrent =
                                                 \E v \in Threads \ {t} :
                                                     Running(threads[v])]
                     ELSE IF Running(threads[u])
                     THEN [threads[u] EXCEPT !.concurrent = TRUE]
                     ELSE threads[u]]
    /\ UNCHANGED <<cacheVars, cfgVars, loopVars, storeVars, sessionVars, webVars, componentVars,
                   answerVars>>

\* the scheduler lets worker t run its next step
ThreadStep(t) ==
    /\ Running(threads[t])
    /\ threads' = [threads EXCEPT ![t] = WrapperStep(threads[t], cache, env).thread]
    /\ cache' = WrapperStep(threads[t], cache, env).cache
    /\ UNCHANGED <<env, call, repeated, cfgVars, loopVars, storeVars, sessionVars,
                   webVars, componentVars, answerVars>>

\* --------------------------------------------------------- KylinLLMSearcher
\* self.retriever_top_k, passed as top_k=...
TopKKwargs == << <<"top_k", "10">> >>

\* answers of the searcher model to the verification prompt
VerifyResponses == {"Yes", "No"}
\* "yes" in response.lower()
ContainsYes(response) == response = "Yes"

\* answers of the searcher model to the summary prompt, as word sequences
SummaryResponses == {<<"Paris", "is", "the", "capital">>,
                     <<"No", "relevant", "information">>}

\* further answers to the summary prompt
SummaryResponsesWide ==
    SummaryResponses \cup {<<"The", "context", "does", "not", "provide">>,
                           <<"Context", "does", "not", "contain">>}

Lower(w) == IF w = "No" THEN "no"
            ELSE IF w = "Context" THEN "context"
            ELSE IF w = "The" THEN "the"
            ELSE IF w = "Paris" THEN "paris"
            ELSE w
LowerText(text) == [i \in DOMAIN text |-> Lower(text[i])]

\* re.match(pattern, text): the pattern matches at the start of the text
MatchAtStart(pattern, text) ==
    /\ Len(pattern) <= Len(text)
    /\ \A i \in DOMAIN pattern : text[i] = pattern[i]

\* not_relevant(text) of summarize_contexts
not_relevant(text) ==
    \/ MatchAtStart(<<"context", "does", "not", "provide">>, LowerText(text))
    \/ MatchAtStart(<<"context", "does", "not", "contain">>, LowerText(text))
    \/ MatchAtStart(<<"no", "relevant", "information">>, LowerText(text))

\* summarize_contexts(contexts, question) given the model's responses
summarize_contexts(ctxs, responses) ==
    [i \in 1..Len(ctxs) |->
        IF i > Len(responses) THEN ctxs[i]
        ELSE [ctxs[i] EXCEPT !.text = IF not_relevant(responses[i]) THEN None
                                      ELSE responses[i]]]

\* the summaries are written into the contexts that were passed in
MutSummaryInPlace(ctxs, responses) == summarize_contexts(ctxs, responses)

\* line 392, summarized = deepcopy(contexts): what the contexts passed to
\* summarize_contexts, which the round record holds, are after the call
ContextsAfterSummary(ctxs, responses) == ctxs

\* [i for i in summarized if i["text"] is not None]
RECURSIVE Surviving(_)
Surviving(summarized) ==
    IF summarized = <<>> THEN <<>>
    ELSE (IF Head(summarized).text # None THEN <<Head(summarized)>> ELSE <<>>)
         \o Surviving(Tail(summarized))

\* a loop bound that is one short
MutTotalTurnNum(v) == IF v THEN 2 ELSE 1

\* verification never buys a second round
MutSingleTurn(v) == 1

\* total_turn_num = 3 if self.verify else 1
total_turn_num(v) == IF v THEN 3 ELSE 1

\* the history of the first retriever is handed to every retriever
MutFailingHistory(history, turn, i) ==
    [t \in 1..(IF turn < Len(history) THEN turn ELSE Len(history)) |-> history[t][1]]

\* the round just failed is not yet in the history handed to the rewrite
MutFailingHistoryStale(history, turn, i) ==
    [t \in 1..Min(turn - 1, Len(history)) |-> history[t][i]]

\* the failed rounds of the question's first need are handed on to the later needs
MutFailingHistoryShared(history, turn, i) ==
    LET first == IF search_track.retrieval = <<>> THEN <<>>
                 ELSE search_track.retrieval[1].retrieval_history
    IN [t \in 1..(Len(first) - 1) |-> first[t][i]]
       \o [t \in 1..Min(turn, Len(history)) |-> history[t][i]]

\* failing_history = [i[idx] for i in retrieval_history[:turn_num]]
failing_history(history, turn, i) == [t \in 1..Min(turn, Len(history)) |-> history[t][i]]

\* failing_queries = [i["query"] for i in failing_history]
failing_queries(fh) == [t \in DOMAIN fh |-> fh[t].query]

\* the identifiers are taken from "urls" whenever that field is present
MutIndicesOf(group) ==
    IF "urls" \in DOMAIN group THEN Some(group.urls)
    ELSE IF "indices" \in DOMAIN group THEN Some(group.indices)
    ELSE None

\* lines 284-286: the identifiers of a result group, None when it has neither field
IndicesOf(group) ==
    IF "indices" \in DOMAIN group THEN Some(group.indices)
    ELSE IF "urls" \in DOMAIN group THEN Some(group.urls)
    ELSE None

\* lines 287-296: one context per (text, source) pair of zip(texts, indices)
BuildContexts(q, retriever, texts, indices) ==
    [i \in 1..Min(Len(texts), Len(indices)) |->
        [query |-> q, retriever |-> retriever, text |-> texts[i],
         full_text |-> texts[i], source |-> indices[i]]]

\* the record holds the information need in place of the query that was sent
MutRoundRecordNeed(retriever, query_to_search, ctxs) ==
    [retriever |-> retriever, query |-> query, contexts |-> ctxs]

\* lines 298-304: the record appended to the round's entry of the history
RoundRecord(retriever, query_to_search, ctxs) ==
    [retriever |-> retriever, query |-> query_to_search, contexts |-> ctxs]

\* inner_search(query) is entered: lines 260-262
InnerSearch(q) ==
    /\ pc \in {"idle", "done", "raised"}
    /\ pc' = "while"
    /\ query' = q
    /\ turn_num' = 0
    /\ idx' = 1
    /\ contexts' = <<>>
    /\ retrieval_history' = <<>>
    /\ rewriteLog' = <<>>
    /\ searchLog' = <<>>
    /\ verifyLog' = <<>>
    /\ returned' = None
    /\ UNCHANGED <<cacheVars, cfgVars, storeVars, webVars, componentVars, threadVars, answerVars>>

\* a round starts with the contexts the round before it gathered
MutWhileTestKeepsContexts ==
    /\ pc = "while"
    /\ IF turn_num < total_turn_num(verify)
       THEN /\ pc' = "retrieve"
            /\ contexts' = contexts
            /\ retrieval_history' = Append(retrieval_history, <<>>)
            /\ idx' = 1
            /\ UNCHANGED returned
       ELSE /\ pc' = "done"
            /\ returned' = Some(<<contexts, retrieval_history>>)
            /\ UNCHANGED <<contexts, retrieval_history, idx>>
    /\ UNCHANGED <<cacheVars, cfgVars, query, turn_num, rewriteLog, searchLog, verifyLog,
                   storeVars, webVars, componentVars, threadVars, answerVars, sessionVars>>

\* the loop test, the start of a round (lines 263-265) and the return (line 318)
WhileTest ==
    /\ pc = "while"
    /\ IF turn_num < total_turn_num(verify)
       THEN /\ pc' = "retrieve"
            /\ contexts' = <<>>
            /\ retrieval_history' = Append(retrieval_history, <<>>)
            /\ idx' = 1
            /\ UNCHANGED returned
       ELSE /\ pc' = "done"
            /\ returned' = Some(<<contexts, retrieval_history>>)
            /\ UNCHANGED <<contexts, retrieval_history, idx>>
    /\ UNCHANGED <<cacheVars, cfgVars, query, turn_num, rewriteLog, searchLog, verifyLog,
                   storeVars, webVars, componentVars, threadVars, answerVars, sessionVars>>

\* one retriever of the round, lines 266-311; rewritten is the rewrite collaborator's
\* answer and responses are the summarizer's answers (used when enabled)
Retrieve(rewritten, responses) ==
    /\ pc = "retrieve"
    /\ idx <= Len(Retrievers)
    /\ LET retriever == Retrievers[idx]
           fh == failing_history(retrieval_history, turn_num, idx)
           query_to_search == IF rewrite THEN rewritten ELSE query
           obs == Observe(retriever, cache, env, <<query_to_search>>,
                          IF disable_cache THEN "True" ELSE "False", TopKKwargs)
           group == obs.out.results[1]
           ctxs == BuildContexts(query_to_search, retriever, group.texts,
                                 IndicesOf(group)[1])
           record == RoundRecord(retriever, query_to_search, ctxs)
           summarized == summarize_contexts(ctxs, responses)
           round == turn_num + 1
       IN /\ rewritten = query \/ rewrite
          /\ Len(responses) = (IF summary_context /\ obs.out.status = "ok"
                               THEN Len(group.texts) ELSE 0)
          /\ rewriteLog' = IF rewrite
                           THEN Append(rewriteLog,
                                       [turn |-> round, retriever |-> retriever,
                                        info |-> query,
                                        failing |-> failing_queries(fh)])
                           ELSE rewriteLog
          /\ searchLog' = Append(searchLog, [turn |-> round, retriever |-> retriever,
                                             query |-> query_to_search])
          /\ call' = obs
          /\ repeated' = SameArguments(call, obs)
          /\ cache' = obs.out.cache
          /\ IF obs.out.status # "ok" \/ IndicesOf(group) = None
             THEN /\ pc' = "raised"
                  /\ UNCHANGED <<idx, contexts, retrieval_history>>
             ELSE /\ retrieval_history' =
                        [retrieval_history EXCEPT ![round] =
                            Append(@, IF summary_context
                                      THEN [summarized_contexts |-> summarized]
                                              @@ [record EXCEPT !.contexts =
                                                     ContextsAfterSummary(ctxs,
                                                                          responses)]
                                      ELSE record)]
                  /\ contexts' = contexts \o (IF summary_context
                                              THEN Surviving(summarized) ELSE ctxs)
                  /\ idx' = idx + 1
                  /\ pc' = IF idx = Len(Retrievers) THEN "verify" ELSE "retrieve"
    /\ UNCHANGED <<env, cfgVars, query, turn_num, verifyLog, returned, storeVars, webVars, componentVars, threadVars, answerVars,
                   sessionVars>>

\* "yes" is looked for without lowering the response
MutVerifyNoLower(v, response) == IF ~v THEN TRUE ELSE response = "yes"

\* the disabled verification reports failure
MutVerifyDisabledFails(v, response) == IF ~v THEN FALSE ELSE ContainsYes(response)

\* verify_contexts(contexts, question) given the model's response
verify_contexts(v, response) == IF ~v THEN TRUE ELSE ContainsYes(response)

\* lines 313-317: the verification of the round, then break or turn_num += 1
Verify(response) ==
    /\ pc = "verify"
    /\ verify \/ response = "Yes"
    /\ verifyLog' = IF verify
                    THEN Append(verifyLog, [turn |-> turn_num + 1, contexts |-> contexts,
                                            question |-> query, response |-> response])
                    ELSE verifyLog
    /\ IF verify_contexts(verify, response)
       THEN /\ pc' = "done"
            /\ returned' = Some(<<contexts, retrieval_history>>)
            /\ UNCHANGED turn_num
       ELSE /\ pc' = "while"
            /\ turn_num' = turn_num + 1
            /\ UNCHANGED returned
    /\ UNCHANGED <<cacheVars, cfgVars, query, idx, contexts, retrieval_history,
                   rewriteLog, searchLog, storeVars, webVars, componentVars, threadVars, answerVars, sessionVars>>

\* answers of the searcher model to the extraction prompt, as token sequences:
\* "[n]" starts an item and is followed by a blank, "\n" ends a line
ExtractResponses == {<<>>,
                     <<"[1]", "q1">>,
                     <<"[1]", "q1", "[2]", "q2">>,
                     <<"[1]", "q2", "\n", "[2]", "q1">>}

\* the markers "[n]" of a numbered list, in order
Markers == <<"[1]", "[2]", "[3]", "[4]", "[5]">>

IsMarker(tok) == \E n \in DOMAIN Markers : tok = Markers[n]
IsNewline(tok) == tok = "\n"

\* the item text followed by the blank that separates it from the next "[n]"
WithBlank(w) == IF w = "q1" THEN "q1 " ELSE IF w = "q2" THEN "q2 "
                ELSE IF w = "q3" THEN "q3 " ELSE w

\* re.findall(r"\[\d+\] (.+?)(?=\[\d+\]|\Z)", response): an item matches when its
\* text reaches the next "[n]" or the end of the response without crossing a
\* line end ("." does not match "\n")
RECURSIVE FindAll(_)
FindAll(toks) ==
    IF toks = <<>> THEN <<>>
    ELSE IF IsMarker(Head(toks)) /\ Len(toks) >= 2
            /\ ~IsMarker(toks[2]) /\ ~IsNewline(toks[2])
    THEN IF Len(toks) = 2 THEN <<toks[2]>>
         ELSE IF IsMarker(toks[3])
         THEN <<WithBlank(toks[2])>> \o FindAll(Tail(Tail(toks)))
         ELSE FindAll(Tail(Tail(toks)))
    ELSE FindAll(Tail(toks))

\* determine_needed_information(question) given the model's response
determine_needed_information(response) == FindAll(response)

\* lines 232-235: the needs of a question
InfoNeeded(extract, q, response) ==
    IF extract THEN determine_needed_information(response) ELSE <<q>>

\* the texts of the items of a numbered list
ItemTexts == {"q1", "q2", "q3"}

\* the numbered list "[1] <text>", "[2] <text>", ... from item n on, as tokens; item i
\* ends its line when nl[i], and is followed by a blank and the next item otherwise
RECURSIVE ListFrom(_, _, _)
ListFrom(items, nl, n) ==
    IF n > Len(items) THEN <<>>
    ELSE <<Markers[n], items[n]>> \o (IF nl[n] THEN <<"\n">> ELSE <<>>)
         \o ListFrom(items, nl, n + 1)

NumberedList(items, nl) == ListFrom(items, nl, 1)

\* lines 232-235 for a question whose extraction is answered with a numbered list
DetermineNeeds(extract, q, items, nl) ==
    /\ parsed' = [extract |-> extract, question |-> q, items |-> items,
                  response |-> NumberedList(items, nl),
                  info_needed |-> InfoNeeded(extract, q, NumberedList(items, nl))]
    /\ UNCHANGED <<cacheVars, cfgVars, loopVars, storeVars, sessionVars, webVars,
                   answerVars, threadVars, keyVars, rankVars, docVars>>

\* the contexts of a need are put in front of the pool
MutExtend(contexts_, ctx) == ctx \o contexts_

\* contexts.extend(ctx)
Extend(contexts_, ctx) == contexts_ \o ctx

\* the entry of a need is put in front of the trace
MutTrackAppend(track, q, ret_history) ==
    [track EXCEPT !.retrieval =
        <<[atom_query |-> q, retrieval_history |-> ret_history]>> \o @]

\* the entry of a need takes the place of the entries of the needs before it
MutTrackReplace(track, q, ret_history) ==
    [track EXCEPT !.retrieval =
        <<[atom_query |-> q, retrieval_history |-> ret_history]>>]

\* search_track["retrieval"].append({"atom_query": q, "retrieval_history": ...})
TrackAppend(track, q, ret_history) ==
    [track EXCEPT !.retrieval =
        Append(@, [atom_query |-> q, retrieval_history |-> ret_history])]

\* the trace of the question before is carried on
MutSearchKeepsTrack(q, response) ==
    /\ spc \in {"idle", "done", "raised"}
    /\ extract_info \/ response = <<>>
    /\ spc' = "loop"
    /\ question' = q
    /\ search_track' = [search_track EXCEPT !.question = q]
    /\ info_needed' = InfoNeeded(extract_info, q, response)
    /\ pool' = <<>>
    /\ need' = 1
    /\ result' = None
    /\ UNCHANGED <<cacheVars, cfgVars, loopVars, storeVars, webVars, componentVars,
                   threadVars, extract_info>>

\* the contexts of the question before are still in the pool
MutSearchKeepsPool(q, response) ==
    /\ spc \in {"idle", "done", "raised"}
    /\ extract_info \/ response = <<>>
    /\ spc' = "loop"
    /\ question' = q
    /\ search_track' = [question |-> q, retrieval |-> <<>>]
    /\ info_needed' = InfoNeeded(extract_info, q, response)
    /\ pool' = pool
    /\ need' = 1
    /\ result' = None
    /\ UNCHANGED <<cacheVars, cfgVars, loopVars, storeVars, webVars, componentVars, threadVars, extract_info>>

\* search(question) is entered: lines 230-238
Search(q, response) ==
    /\ spc \in {"idle", "done", "raised"}
    /\ extract_info \/ response = <<>>
    /\ spc' = "loop"
    /\ question' = q
    /\ search_track' = [question |-> q, retrieval |-> <<>>]
    /\ info_needed' = InfoNeeded(extract_info, q, response)
    /\ pool' = <<>>
    /\ need' = 1
    /\ result' = None
    /\ UNCHANGED <<cacheVars, cfgVars, loopVars, storeVars, webVars, componentVars, threadVars, extract_info>>

\* line 240: the next need is handed to inner_search
CallInnerSearch ==
    /\ spc = "loop"
    /\ need <= Len(info_needed)
    /\ InnerSearch(info_needed[need])
    /\ spc' = "inner"
    /\ UNCHANGED <<extract_info, question, info_needed, need, pool, search_track, result>>

\* lines 240-244: inner_search returned, its history and contexts are collected
CollectNeed ==
    /\ spc = "inner"
    /\ pc = "done"
    /\ search_track' = TrackAppend(search_track, info_needed[need], returned[1][2])
    /\ pool' = Extend(pool, returned[1][1])
    /\ need' = need + 1
    /\ spc' = "loop"
    /\ UNCHANGED <<cacheVars, cfgVars, loopVars, storeVars, webVars, componentVars, threadVars, answerVars, extract_info, question,
                   info_needed, result>>

\* inner_search raised: nothing in search() catches it
NeedRaised ==
    /\ spc = "inner"
    /\ pc = "raised"
    /\ spc' = "raised"
    /\ UNCHANGED <<cacheVars, cfgVars, loopVars, storeVars, webVars, componentVars, threadVars, answerVars, extract_info, question,
                   info_needed, need, pool, search_track, result>>

\* lines 245-246: the loop is over, search() returns
SearchReturn ==
    /\ spc = "loop"
    /\ need > Len(info_needed)
    /\ spc' = "done"
    /\ result' = Some(<<pool, [question |-> search_track.question,
                               retrieval |-> search_track.retrieval,
                               retrieved_contexts |-> pool]>>)
    /\ UNCHANGED <<cacheVars, cfgVars, loopVars, storeVars, webVars, componentVars, threadVars, answerVars, extract_info, question,
                   info_needed, need, pool, search_track>>

\* answers of the generator model
GenResponses == {"answer1", "answer2"}

\* lines 403-411: the user prompt built from the contexts and the question
GenPrompt(q, ctxs) ==
    [question |-> q,
     contexts |-> [n \in DOMAIN ctxs |->
                      IF "summary" \in DOMAIN ctxs[n] THEN ctxs[n].summary
                      ELSE ctxs[n].text]]

\* answer(questions) is entered: lines 209-211
Answer(qs) ==
    /\ apc \in {"idle", "done", "raised"}
    /\ apc' = "loop"
    /\ questions' = qs
    /\ apos' = 1
    /\ answer_responses' = <<>>
    /\ search_tracks' = <<>>
    /\ areturned' = None
    /\ UNCHANGED <<cacheVars, cfgVars, loopVars, storeVars, sessionVars, webVars, componentVars, threadVars>>

\* lines 212-214 and 221: the next question is handed to _answer, which calls search
CallSearch(response) ==
    /\ apc = "loop"
    /\ apos <= Len(questions)
    /\ Search(questions[apos], response)
    /\ apc' = "search"
    /\ UNCHANGED <<questions, apos, answer_responses, search_tracks, areturned>>

\* lines 223-226 and 215-216: search returned, the answer is generated and the
\* response and the trace are collected
CollectAnswer(generated) ==
    /\ apc = "search"
    /\ spc = "done"
    /\ answer_responses' = Append(answer_responses, generated)
    /\ search_tracks' =
          Append(search_tracks,
                 [question |-> result[1][2].question,
                  retrieval |-> result[1][2].retrieval,
                  retrieved_contexts |-> result[1][2].retrieved_contexts,
                  generation_prompt |-> GenPrompt(questions[apos], result[1][1])])
    /\ apos' = apos + 1
    /\ apc' = "loop"
    /\ UNCHANGED <<cacheVars, cfgVars, loopVars, storeVars, sessionVars, webVars, componentVars, threadVars,
                   questions, areturned>>

\* search raised: nothing in _answer or answer catches it
AnswerRaised ==
    /\ apc = "search"
    /\ spc = "raised"
    /\ apc' = "raised"
    /\ UNCHANGED <<cacheVars, cfgVars, loopVars, storeVars, sessionVars, webVars, componentVars, threadVars,
                   questions, apos, answer_responses, search_tracks, areturned>>

\* line 217: return responses, search_tracks
AnswerReturn ==
    /\ apc = "loop"
    /\ apos > Len(questions)
    /\ apc' = "done"
    /\ areturned' = Some(<<answer_responses, search_tracks>>)
    /\ UNCHANGED <<cacheVars, cfgVars, loopVars, storeVars, sessionVars, webVars, componentVars, threadVars,
                   questions, apos, answer_responses, search_tracks>>

\* ------------------------------------------------------------ RankGPTRanker
\* re.sub(r"\D", " ", response).split(): the numbers a response of the ranking
\* model mentions, in order; a number is a run of digits, so none is negative
RankResponses ==
    UNION {[1..k -> 0..(MaxCandidates + 1)] : k \in 0..MaxMentions}

\* indices_ = [int(x) - 1 for x in response.split()]
ZeroBased(response) == [j \in DOMAIN response |-> response[j] - 1]

\* lines 84-87: the first occurrence of every index is kept
RECURSIVE Deduplicate(_, _)
Deduplicate(seen, rest) ==
    IF rest = <<>> THEN seen
    ELSE IF \E j \in DOMAIN seen : seen[j] = Head(rest)
    THEN Deduplicate(seen, Tail(rest))
    ELSE Deduplicate(Append(seen, Head(rest)), Tail(rest))

\* list(range(n))
Range(n) == [j \in 1..n |-> j - 1]

\* the elements of a list
Elems(list) == {list[j] : j \in DOMAIN list}

\* _rank_piece(query, candidates) for k candidates given the model's response:
\* lines 80-95
RankPiece(k, response) ==
    LET indices == Deduplicate(<<>>, ZeroBased(response))
        new_indices == SelectSeq(indices, LAMBDA x : x \in Elems(Range(k)))
    IN new_indices \o SelectSeq(Range(k), LAMBDA x : x \notin Elems(new_indices))

\* max(a, b)
Max(a, b) == IF a > b THEN a ELSE b

\* indices[start:end] = piece, for 0 <= start <= end <= len(indices)
SliceAssign(list, start, end, piece) ==
    [j \in 1..start |-> list[j]] \o piece
        \o [j \in 1..(Len(list) - end) |-> list[end + j]]

\* _rank(query, candidates) is entered with n candidates: lines 47-49
Rank(n, window_size, step_size) ==
    /\ ranking.pc \in {"idle", "done"}
    /\ ranking' = [pc |-> "while", n |-> n, window_size |-> window_size,
                   step_size |-> step_size, indices |-> Range(n),
                   start_idx |-> Max(n - window_size, 0), end_idx |-> n,
                   windows |-> <<>>, piece |-> <<>>, piece_n |-> 0]
    /\ UNCHANGED <<cacheVars, cfgVars, loopVars, storeVars, sessionVars, webVars,
                   answerVars, threadVars, keyVars, extractVars, docVars>>

\* one turn of the loop of lines 50-56, given the model's response for the window
RankStep(response) ==
    /\ ranking.pc = "while"
    /\ ranking.start_idx >= 0
    /\ LET start == Max(ranking.start_idx, 0)
           width == ranking.end_idx - start
           indices_ == RankPiece(width, response)
       IN ranking' = [ranking EXCEPT
                        !.indices = SliceAssign(ranking.indices, start, ranking.end_idx,
                                                indices_),
                        !.windows = Append(@, <<start, ranking.end_idx>>),
                        !.piece = indices_,
                        !.piece_n = width,
                        !.start_idx = start - ranking.step_size,
                        !.end_idx = ranking.end_idx - ranking.step_size]
    /\ UNCHANGED <<cacheVars, cfgVars, loopVars, storeVars, sessionVars, webVars,
                   answerVars, threadVars, keyVars, extractVars, docVars>>

\* the loop test fails and _rank returns np.array(indices): line 57
RankReturn ==
    /\ ranking.pc = "while"
    /\ ranking.start_idx < 0
    /\ ranking' = [ranking EXCEPT !.pc = "done"]
    /\ UNCHANGED <<cacheVars, cfgVars, loopVars, storeVars, sessionVars, webVars,
                   answerVars, threadVars, keyVars, extractVars, docVars>>

\* ---------------------------------------------------- DocumentChatAssistant
\* the documents a caller attaches; "d3" has an empty text
Documents == {"d1", "d2", "d3"}

\* document.text of the parsed document
DocumentText(d) == <<"text", d>>

\* self.chunker.chunk(document.text)
Chunk(d) ==
    IF d = "d1" THEN <<<<"chunk", "d1", "1">>, <<"chunk", "d1", "2">>>>
    ELSE IF d = "d2" THEN <<<<"chunk", "d2", "1">>>>
    ELSE <<>>

\* lines 65-68: the chunks of a document
ChunksOf(chunker, d) == IF chunker THEN Chunk(d) ELSE <<DocumentText(d)>>

\* DenseRetriever.clean(), add_passages(chunks) and len(retriever)
RetrieverClean(passages) == <<>>
AddPassages(passages, chunks) == passages \o chunks
RetrieverLen(passages) == Len(passages)

\* DenseRetriever.search_batch: the passages found for a question
DenseSearch(passages, q) == passages

\* self.reranker.rank(question, retrieved_contexts).candidates
Reverse(list) == [j \in DOMAIN list |-> list[Len(list) + 1 - j]]
Rerank(order, retrieved) == IF order = "same" THEN retrieved ELSE Reverse(retrieved)

\* the last two calls of attach_document
Remember(attached, entry) ==
    (IF Len(attached) = 2 THEN Tail(attached) ELSE attached) \o <<entry>>

\* another DocumentChatAssistant is constructed
CreateAssistant(chunker, reranker) ==
    /\ assistant' = NewAssistant(chunker, reranker)
    /\ UNCHANGED <<cacheVars, cfgVars, loopVars, storeVars, sessionVars, webVars,
                   answerVars, threadVars, keyVars, extractVars, rankVars>>

\* the document is added to what the retriever holds
MutAttachNoClean(path, parsedOk) ==
    /\ assistant' =
          IF path = None
          THEN [assistant EXCEPT !.passages = RetrieverClean(@),
                                 !.attached = Remember(@, [path |-> path,
                                                           outcome |-> "none"])]
          ELSE IF ~parsedOk
          THEN [assistant EXCEPT !.attached = Remember(@, [path |-> path,
                                                           outcome |-> "raised"])]
          ELSE [assistant EXCEPT
                  !.passages = AddPassages(@, ChunksOf(assistant.chunker, path[1])),
                  !.attached = Remember(@, [path |-> path, outcome |-> "attached"])]
    /\ UNCHANGED <<cacheVars, cfgVars, loopVars, storeVars, sessionVars, webVars,
                   answerVars, threadVars, keyVars, extractVars, rankVars>>

\* attach_document(document_path), lines 58-72; parsedOk tells whether
\* self.parser.parse returns a document or raises
AttachDocument(path, parsedOk) ==
    /\ assistant' =
          IF path = None
          THEN [assistant EXCEPT !.passages = RetrieverClean(@),
                                 !.attached = Remember(@, [path |-> path,
                                                           outcome |-> "none"])]
          ELSE IF ~parsedOk
          THEN [assistant EXCEPT !.passages = RetrieverClean(@),
                                 !.attached = Remember(@, [path |-> path,
                                                           outcome |-> "raised"])]
          ELSE [assistant EXCEPT
                  !.passages = AddPassages(RetrieverClean(@),
                                           ChunksOf(assistant.chunker, path[1])),
                  !.attached = Remember(@, [path |-> path, outcome |-> "attached"])]
    /\ UNCHANGED <<cacheVars, cfgVars, loopVars, storeVars, sessionVars, webVars,
                   answerVars, threadVars, keyVars, extractVars, rankVars>>

\* answer(question), lines 74-108; retriever.search is the cached search of
\* LocalRetriever, called without a disable_cache keyword
AssistantAnswer(q, order) ==
    LET held == assistant.passages
        bypass == Truthy(PopDisableCache("absent", env))
        looked == GetAll(cache, Keys("dense", <<q>>, <<>>))
        retrieved == IF bypass THEN DenseSearch(held, q) ELSE looked.results[1][1]
    IN /\ assistant' =
             [assistant EXCEPT !.out =
                 Some(IF RetrieverLen(held) = 0
                      THEN [before |-> held, status |-> "ok", contexts |-> <<>>,
                            searched |-> 0, ranked |-> 0]
                      ELSE IF ~bypass /\ looked.error # "none"
                      THEN [before |-> held, status |-> looked.error,
                            contexts |-> <<>>, searched |-> 1, ranked |-> 0]
                      ELSE [before |-> held, status |-> "ok",
                            contexts |-> IF assistant.reranker
                                         THEN Rerank(order, retrieved)
                                         ELSE retrieved,
                            searched |-> 1,
                            ranked |-> IF assistant.reranker THEN 1 ELSE 0])]
       /\ cache' = IF RetrieverLen(held) = 0 \/ bypass THEN cache ELSE looked.cache
    /\ UNCHANGED <<env, call, repeated, cfgVars, loopVars, storeVars, sessionVars,
                   webVars, answerVars, threadVars, keyVars, extractVars, rankVars>>

\* ------------------------------------------------------------ WebRetriever
\* WebRetrieverConfig.retry_delay
retry_delay == "0.5"

\* what search_item returns for a query when the backend answers
WebItem(q) == <<[query |-> q, text |-> <<"snippet", q>>, source |-> <<"url", q>>]>>

\* one more attempt than asked for
MutMaxAttempts(rt) == IF rt > 1 THEN rt + 1 ELSE 1

\* lines 64-70: search_item is wrapped in retry(stop=stop_after_attempt(retry_times),
\* wait=wait_fixed(retry_delay)) only when retry_times > 1
MaxAttempts(rt) == IF rt > 1 THEN rt ELSE 1

\* no _search running
WebIdle ==
    /\ wpc = "idle"
    /\ wquery = <<>>
    /\ retry_times = 1
    /\ wpos = 1
    /\ attempts = <<>>
    /\ waits = <<>>
    /\ wresults = <<>>
    /\ wreturned = None

\* _search(query, retry_times=rt) is entered: lines 60-73
WebSearch(input, rt) ==
    /\ wpc \in {"idle", "done", "raised"}
    /\ wpc' = "loop"
    /\ wquery' = AsList(input)
    /\ retry_times' = rt
    /\ wpos' = 1
    /\ attempts' = <<>>
    /\ waits' = <<>>
    /\ wresults' = <<>>
    /\ wreturned' = None
    /\ UNCHANGED nonWebVars

\* lines 75-76: the next query is taken up, after time.sleep(delay)
WebNextQuery ==
    /\ wpc = "loop"
    /\ wpos <= Len(wquery)
    /\ wpc' = "call"
    /\ attempts' = Append(attempts, 0)
    /\ UNCHANGED <<wquery, retry_times, wpos, waits, wresults, wreturned, nonWebVars>>

\* line 78: an attempt of search_method(q, top_k) succeeds
AttemptSucceeds ==
    /\ wpc = "call"
    /\ attempts' = [attempts EXCEPT ![wpos] = @ + 1]
    /\ wresults' = Append(wresults, WebItem(wquery[wpos]))
    /\ wpos' = wpos + 1
    /\ wpc' = "loop"
    /\ UNCHANGED <<wquery, retry_times, waits, wreturned, nonWebVars>>

\* line 78: an attempt fails; it is repeated after retry_delay while attempts are
\* left, and the error leaves _search when none is
AttemptFails ==
    /\ wpc = "call"
    /\ attempts' = [attempts EXCEPT ![wpos] = @ + 1]
    /\ IF attempts[wpos] + 1 < MaxAttempts(retry_times)
       THEN /\ waits' = Append(waits, [pos |-> wpos, duration |-> retry_delay])
            /\ wpc' = "call"
       ELSE /\ wpc' = "raised"
            /\ UNCHANGED waits
    /\ UNCHANGED <<wquery, retry_times, wpos, wresults, wreturned, nonWebVars>>

\* line 79: return results
WebReturn ==
    /\ wpc = "loop"
    /\ wpos > Len(wquery)
    /\ wpc' = "done"
    /\ wreturned' = Some(wresults)
    /\ UNCHANGED <<wquery, retry_times, wpos, attempts, waits, wresults, nonWebVars>>

\* ------------------------------------------------------------ specifications
\* the process starts: the environment is read, the store is opened
InitCache ==
    /\ env \in EnvValues
    /\ cache = <<>>
    /\ call = NoCall
    /\ repeated = FALSE
    /\ storeUp = TRUE
    /\ capacity = maxsize
    /\ storeOp = NoOp
    /\ useLog = <<>>
    /\ backendUp = TRUE
    /\ threads = [t \in Threads |-> IdleThread]
    /\ ComponentsIdle
    /\ WebIdle

\* KylinLLMSearcher.__init__, and no inner_search running
InitSearcher ==
    /\ rewrite \in BOOLEAN
    /\ verify \in BOOLEAN
    /\ summary_context \in BOOLEAN
    /\ disable_cache \in BOOLEAN
    /\ extract_info \in BOOLEAN
    /\ pc = "idle"
    /\ query = "q1"
    /\ turn_num = 0
    /\ idx = 1
    /\ contexts = <<>>
    /\ retrieval_history = <<>>
    /\ rewriteLog = <<>>
    /\ searchLog = <<>>
    /\ verifyLog = <<>>
    /\ returned = None
    /\ spc = "idle"
    /\ question = "q1"
    /\ info_needed = <<>>
    /\ need = 1
    /\ pool = <<>>
    /\ search_track = [question |-> "q1", retrieval |-> <<>>]
    /\ result = None
    /\ apc = "idle"
    /\ questions = <<>>
    /\ apos = 1
    /\ answer_responses = <<>>
    /\ search_tracks = <<>>
    /\ areturned = None

\* a process that runs the searcher
Init == InitCache /\ env \in SearcherEnvValues /\ InitSearcher /\ ~extract_info

AllResponses == UNION {[1..n -> SummaryResponses] : n \in 0..2}

Next ==
    \/ \E q \in Needs : InnerSearch(q) /\ UNCHANGED sessionVars
    \/ WhileTest
    \/ \E rewritten \in Queries, responses \in AllResponses : Retrieve(rewritten, responses)
    \/ \E response \in VerifyResponses : Verify(response)

Spec == Init /\ [][Next]_vars

\* a process that only calls the cached search of its retrievers
NextCache ==
    \E self \in RetrieverSet, input \in QueryInputs, dc \in DisableArgs,
       kw \in KwargChoices :
        CachedSearch(self, input, dc, kw)
           /\ UNCHANGED <<cfgVars, loopVars, storeVars, webVars, componentVars, threadVars, answerVars, sessionVars>>

InitIdle == InitCache /\ InitSearcher /\ ~extract_info
            /\ ~rewrite /\ ~verify /\ ~summary_context /\ ~disable_cache

SpecCache == InitIdle /\ [][NextCache]_vars

\* the backing store becomes unreachable or corrupt
StoreFails ==
    /\ storeUp
    /\ storeUp' = FALSE
    /\ UNCHANGED <<cacheVars, cfgVars, loopVars, capacity, storeOp, useLog, backendUp,
                   sessionVars, webVars, componentVars, threadVars, answerVars>>

\* the backing store can be used again
StoreRecovers ==
    /\ ~storeUp
    /\ storeUp' = TRUE
    /\ UNCHANGED <<cacheVars, cfgVars, loopVars, capacity, storeOp, useLog, backendUp,
                   sessionVars, webVars, componentVars, threadVars, answerVars>>

\* a process that calls the cached search while the store may fail
NextCacheFail ==
    \/ \E self \in RetrieverSet, input \in QueryInputs, dc \in DisableArgs,
          kw \in KwargChoices :
           CachedSearch(self, input, dc, kw)
           /\ UNCHANGED <<cfgVars, loopVars, storeVars, webVars, componentVars, threadVars, answerVars, sessionVars>>
    \/ StoreFails
    \/ StoreRecovers

SpecCacheFail == InitIdle /\ [][NextCacheFail]_vars

\* the questions put to a searcher whose rounds are examined one by one
RoundNeeds == {"q1", "q2", Malformed}

AllResponsesWide == UNION {[1..n -> SummaryResponsesWide] : n \in 0..2}

\* a searcher that passes the question on unchanged and does not use the cache;
\* it summarizes or verifies, not both
InitRound ==
    /\ InitCache /\ env = "unset"
    /\ InitSearcher /\ ~rewrite /\ disable_cache /\ ~(summary_context /\ verify)
    /\ ~extract_info

NextRound ==
    \/ \E q \in RoundNeeds : InnerSearch(q) /\ UNCHANGED sessionVars
    \/ WhileTest
    \/ \E responses \in AllResponsesWide : Retrieve(query, responses)
    \/ \E response \in VerifyResponses : Verify(response)

SpecRound == InitRound /\ [][NextRound]_vars

\* a searcher that answers whole questions
InitSession ==
    /\ InitCache /\ env = "unset"
    /\ InitSearcher /\ ~rewrite /\ ~summary_context

NextSession ==
    \/ \E q \in RoundNeeds, response \in ExtractResponses :
           Search(q, response) /\ UNCHANGED answerVars
    \/ CallInnerSearch
    \/ WhileTest
    \/ Retrieve(query, <<>>)
    \/ \E response \in VerifyResponses : Verify(response)
    \/ CollectNeed
    \/ NeedRaised
    \/ SearchReturn

SpecSession == InitSession /\ [][NextSession]_vars

\* the underlying search of the retrievers starts to fail (timeout, backend down)
BackendFails ==
    /\ backendUp
    /\ backendUp' = FALSE
    /\ UNCHANGED <<cacheVars, cfgVars, loopVars, storeUp, capacity, storeOp, useLog,
                   sessionVars, webVars, componentVars, threadVars, answerVars>>

\* the underlying search answers again
BackendRecovers ==
    /\ ~backendUp
    /\ backendUp' = TRUE
    /\ UNCHANGED <<cacheVars, cfgVars, loopVars, storeUp, capacity, storeOp, useLog,
                   sessionVars, webVars, componentVars, threadVars, answerVars>>

\* a process that calls the cached search while the underlying search may fail
NextFuncFail ==
    \/ \E self \in RetrieverSet, input \in QueryInputs, dc \in DisableArgs,
          kw \in KwargChoices :
           CachedSearch(self, input, dc, kw)
           /\ UNCHANGED <<cfgVars, loopVars, storeVars, webVars, componentVars, threadVars, answerVars, sessionVars>>
    \/ BackendFails
    \/ BackendRecovers

SpecFuncFail == InitIdle /\ [][NextFuncFail]_vars

\* the batches of questions given to answer()
\* a searcher that splits the question into needs and may rewrite, summarize and
\* verify in the loop of each need
InitNeeds ==
    /\ InitCache /\ env = "unset"
    /\ InitSearcher /\ extract_info /\ rewrite /\ verify

\* the rewriter gives the same query for every need
Rewritten == "q2"

\* the summarizer gives the same answer for every context
NeedsResponses == {[i \in 1..n |-> <<"Paris", "is", "the", "capital">>] : n \in 0..2}

NextNeeds ==
    \/ \E response \in ExtractResponses : Search("q1", response) /\ UNCHANGED answerVars
    \/ CallInnerSearch
    \/ WhileTest
    \/ \E responses \in NeedsResponses : Retrieve(Rewritten, responses)
    \/ \E response \in VerifyResponses : Verify(response)
    \/ CollectNeed
    \/ NeedRaised
    \/ SearchReturn

SpecNeeds == InitNeeds /\ [][NextNeeds]_vars

QuestionBatches == UNION {[1..n -> RoundNeeds] : n \in 0..MaxBatch}

\* a searcher that answers batches of questions, without extraction, rewriting or
\* summaries
InitAnswer ==
    /\ InitCache /\ env = "unset"
    /\ InitSearcher /\ ~extract_info /\ ~rewrite /\ ~summary_context

NextAnswer ==
    \/ \E qs \in QuestionBatches : Answer(qs)
    \/ CallSearch(<<>>)
    \/ CallInnerSearch
    \/ WhileTest
    \/ Retrieve(query, <<>>)
    \/ \E response \in VerifyResponses : Verify(response)
    \/ CollectNeed
    \/ NeedRaised
    \/ SearchReturn
    \/ \E generated \in GenResponses : CollectAnswer(generated)
    \/ AnswerRaised
    \/ AnswerReturn

SpecAnswer == InitAnswer /\ [][NextAnswer]_vars

\* a process that only searches the web
\* callers that run the cached search of one retriever in worker threads
NextThreads ==
    \/ \E t \in Threads, self \in RetrieverSet, batch \in Batches, dc \in DisableArgs :
           AsyncSearch(t, self, batch, dc)
    \/ \E t \in Threads : ThreadStep(t)

SpecThreads == InitIdle /\ [][NextThreads]_vars

\* callers whose calls reach the key computation of the wrapper
NextKey ==
    \E cfg \in RetrieverSet, q \in Queries, kw \in KeyKwargs : HashKey(cfg, q, kw)

SpecKey == InitIdle /\ [][NextKey]_vars

\* the needs taken from the numbered lists of up to MaxItems items
NextExtract ==
    \E extract \in BOOLEAN, q \in ItemTexts, n \in 0..MaxItems :
        \E items \in [1..n -> ItemTexts], nl \in [1..n -> BOOLEAN] :
            DetermineNeeds(extract, q, items, nl)

InitExtract == InitIdle /\ env = "unset"

SpecExtract == InitExtract /\ [][NextExtract]_vars

\* a ranker that is given up to MaxCandidates candidates
NextRank ==
    \/ \E n \in 0..MaxCandidates, window_size \in 1..MaxCandidates,
          step_size \in 1..MaxCandidates : Rank(n, window_size, step_size)
    \/ \E response \in RankResponses : RankStep(response)
    \/ RankReturn

SpecRank == InitExtract /\ [][NextRank]_vars

\* the users of a document chat assistant
NextDoc ==
    \/ \E chunker \in BOOLEAN, reranker \in BOOLEAN : CreateAssistant(chunker, reranker)
    \/ AttachDocument(None, TRUE)
    \/ \E d \in Documents, parsedOk \in BOOLEAN : AttachDocument(Some(d), parsedOk)
    \/ \E q \in Queries, order \in {"same", "reversed"} : AssistantAnswer(q, order)

SpecDoc == InitIdle /\ [][NextDoc]_vars

InitWeb == InitIdle /\ env = "unset"

NextWeb ==
    \/ \E input \in QueryInputs, rt \in 0..MaxRetry : WebSearch(input, rt)
    \/ WebNextQuery
    \/ AttemptSucceeds
    \/ AttemptFails
    \/ WebReturn

SpecWeb == InitWeb /\ [][NextWeb]_vars

\* a store opened with a small maxsize and used directly
InitStore ==
    /\ env = "unset"
    /\ cache = <<>>
    /\ call = NoCall
    /\ repeated = FALSE
    /\ storeUp = TRUE
    /\ capacity \in 1..MaxCapacity
    /\ storeOp = NoOp
    /\ useLog = <<>>
    /\ backendUp = TRUE
    /\ threads = [t \in Threads |-> IdleThread]
    /\ ComponentsIdle
    /\ WebIdle
    /\ InitSearcher /\ ~extract_info
    /\ ~rewrite /\ ~verify /\ ~summary_context /\ ~disable_cache

NextStore ==
    \/ \E k \in StoreKeys : StoreGet(k)
           /\ UNCHANGED <<env, call, repeated, cfgVars, loopVars, sessionVars, webVars, componentVars, threadVars, answerVars>>
    \/ \E k \in StoreKeys, v \in StoreValues :
           StorePut(k, v)
           /\ UNCHANGED <<env, call, repeated, cfgVars, loopVars, sessionVars, webVars, componentVars, threadVars, answerVars>>

SpecStore == InitStore /\ [][NextStore]_vars

\* --------------------------------------------------------------- properties
\* the contexts one round record contributes to the aggregated contexts
RecordContexts(rec) ==
    IF "summarized_contexts" \in DOMAIN rec
    THEN SelectSeq(rec.summarized_contexts, LAMBDA c : c.text # None)
    ELSE rec.contexts

RECURSIVE RoundContexts(_)
RoundContexts(round) ==
    IF round = <<>> THEN <<>>
    ELSE RecordContexts(Head(round)) \o RoundContexts(Tail(round))

\* the queries retriever r was sent in the turns before turn t, in call order
QueriesSentBefore(r, t) ==
    LET mine == SelectSeq(searchLog, LAMBDA e : e.retriever = r /\ e.turn < t)
    IN [i \in DOMAIN mine |-> mine[i].query]

\* the turns in which a search call was made
SearchedTurns == {searchLog[i].turn : i \in DOMAIN searchLog}

AllVerificationsFailed ==
    \A i \in DOMAIN verifyLog : ~ContainsYes(verifyLog[i].response)

\* C1: with verification enabled and every verification failing, inner_search runs
\* exactly 3 retrieval rounds, then returns the contexts of the third round together
\* with the three-round history; exhaustion itself raises nothing (an error can only
\* come out of a retriever's search call).
C1_RetryBound ==
    /\ Len(verifyLog) <= 3
    /\ (verify /\ AllVerificationsFailed /\ Len(verifyLog) = 3) =>
          /\ pc \in {"while", "done"}
          /\ turn_num = 3
    /\ (verify /\ AllVerificationsFailed /\ pc = "done") =>
          /\ Len(verifyLog) = 3
          /\ SearchedTurns = 1..3
          /\ Len(searchLog) = 3 * Len(Retrievers)
          /\ returned # None
          /\ Len(returned[1][2]) = 3
          /\ returned[1][1] = RoundContexts(returned[1][2][3])
    /\ pc = "raised" => call.out.status # "ok"

C1_Witness ==
    /\ verify /\ AllVerificationsFailed /\ pc = "done"
    /\ Len(verifyLog) = 3
    /\ returned # None
    /\ returned[1][1] # <<>>

\* C2: once a verification answers yes the loop is over: that verification is the
\* last call of any collaborator, inner_search has returned, and the returned
\* history holds exactly the rounds up to and including the passing one.
C2_PassEndsLoop ==
    \A i \in DOMAIN verifyLog :
        ContainsYes(verifyLog[i].response) =>
            /\ i = Len(verifyLog)
            /\ pc = "done"
            /\ returned # None
            /\ Len(returned[1][2]) = verifyLog[i].turn
            /\ returned[1][1] = verifyLog[i].contexts
            /\ SearchedTurns = 1..verifyLog[i].turn
            /\ Len(searchLog) = verifyLog[i].turn * Len(Retrievers)
            /\ \A j \in DOMAIN rewriteLog : rewriteLog[j].turn <= verifyLog[i].turn
            /\ \A t \in DOMAIN returned[1][2], k \in DOMAIN Retrievers :
                  returned[1][2][t][k].query
                    = searchLog[(t - 1) * Len(Retrievers) + k].query

C2_Witness ==
    /\ pc = "done"
    /\ Len(verifyLog) = 2
    /\ ~ContainsYes(verifyLog[1].response)
    /\ ContainsYes(verifyLog[2].response)
    /\ Len(searchLog) = 2 * Len(Retrievers)

\* C3: with verification disabled inner_search runs one retrieval round and never
\* retries, and the verification collaborator is never called; with verification
\* enabled the number of rounds never exceeds 3.
C3_DisabledNeverRetries ==
    /\ ~verify =>
          /\ verifyLog = <<>>
          /\ turn_num = 0
          /\ Len(retrieval_history) <= 1
          /\ SearchedTurns \subseteq {1}
          /\ Len(searchLog) <= Len(Retrievers)
          /\ pc \notin {"while"} \/ retrieval_history = <<>>
          /\ pc = "done" => /\ Len(searchLog) = Len(Retrievers)
                            /\ Len(returned[1][2]) = 1
    /\ verify =>
          /\ Len(retrieval_history) <= 3
          /\ SearchedTurns \subseteq 1..3
          /\ (pc = "done" /\ AllVerificationsFailed) => Len(retrieval_history) = 3

C3_Witness ==
    /\ ~verify
    /\ pc = "done"
    /\ Len(searchLog) = Len(Retrievers)
    /\ verifyLog = <<>>

\* C4: with rewriting enabled every search call is preceded by one rewrite call for
\* the same turn and retriever, and that rewrite call is given exactly the queries
\* this retriever was sent in the earlier turns, in turn order (none on turn 1).
C4_RewriteFeedback ==
    rewrite =>
        /\ Len(rewriteLog) = Len(searchLog)
        /\ \A i \in DOMAIN rewriteLog :
              /\ rewriteLog[i].retriever = searchLog[i].retriever
              /\ rewriteLog[i].turn = searchLog[i].turn
              /\ rewriteLog[i].info = query
              /\ rewriteLog[i].failing
                    = QueriesSentBefore(rewriteLog[i].retriever, rewriteLog[i].turn)
              /\ Len(rewriteLog[i].failing) = rewriteLog[i].turn - 1

\* the second retriever's turn-3 rewrite sees its own two queries, which differ from
\* the first retriever's
C4_Witness ==
    /\ rewrite
    /\ \E i \in DOMAIN rewriteLog :
          /\ rewriteLog[i].retriever = Retrievers[2]
          /\ rewriteLog[i].turn = 3
          /\ rewriteLog[i].failing = <<"q2", "q1">>
          /\ QueriesSentBefore(Retrievers[1], 3) = <<"q1", "q2">>

\* a call of the cached search has been observed
Called == call.self # "none"

\* the keys of the observed call, and whether each was in the store when it began
KeyAt(i) == hashkey(call.self, call.query[i], call.kw)
HitAt(i) == \E j \in DOMAIN call.before : call.before[j].key = KeyAt(i)

\* the queries of the observed call whose key was absent, in their original order
RECURSIVE MissesFrom(_)
MissesFrom(i) ==
    IF i > Len(call.query) THEN <<>>
    ELSE (IF HitAt(i) THEN <<>> ELSE <<call.query[i]>>) \o MissesFrom(i + 1)

\* C5: a call with caching enabled hands the underlying search exactly the queries
\* whose key was absent from the cache, in their original order, and calls it at
\* most once (not at all when nothing missed).
C5_OnlyMissesSearched ==
    (Called /\ ~call.out.bypass) =>
        call.out.funcArgs = (IF MissesFrom(1) = <<>> THEN <<>> ELSE <<MissesFrom(1)>>)

\* C6: a call with caching enabled returns one result per input query, and the
\* result at position i is the result of the query at position i.
C6_OnePerQueryInOrder ==
    (Called /\ ~call.out.bypass) =>
        /\ call.out.status = "ok"
        /\ Len(call.out.results) = Len(call.query)
        /\ \A i \in DOMAIN call.query :
              call.out.results[i] = SearchItem(call.self, call.query[i])

\* C7: when a call with caching enabled repeats the call before it, every query of
\* it is a hit and the underlying search is not invoked.
C7_SecondCallAllHits ==
    (Called /\ repeated /\ ~call.out.bypass) =>
        /\ \A i \in DOMAIN call.query : HitAt(i)
        /\ call.out.funcArgs = <<>>
        /\ call.out.status = "ok"

\* C8: a call with caching enabled returns what the same call with caching disabled
\* returns from the same store.
C8_CacheTransparent ==
    (Called /\ ~call.out.bypass) =>
        LET direct == Wrapper(call.self, call.before, env, call.query, "True", call.kw)
        IN /\ call.out.status = direct.status
           /\ call.out.results = direct.results

\* C9: a call for which caching is disabled passes the whole batch to the underlying
\* search in one invocation and returns its result; it performs no get and no put,
\* and leaves the content and the recency order of the store as they were.
C9_DisabledLeavesCache ==
    (Called /\ Truthy(PopDisableCache(call.dc, env))) =>
        /\ call.out.bypass
        /\ call.out.status = "ok"
        /\ call.out.funcArgs = <<call.query>>
        /\ call.out.results = [i \in DOMAIN call.query |->
                                  SearchItem(call.self, call.query[i])]
        /\ call.out.gets = <<>>
        /\ call.out.puts = <<>>
        /\ call.out.cache = call.before
        /\ cache = call.before

C9_Witness ==
    /\ Called
    /\ call.dc = "True"
    /\ call.out.bypass
    /\ Len(call.query) = MaxBatch
    /\ call.query[1] # call.query[2]

C11_FailOpen ==
    (Called /\ ~call.out.bypass /\ ~call.up /\ call.query # <<>>) =>
        /\ call.out.status = "ok"
        /\ call.out.funcArgs = <<call.query>>
        /\ call.out.results = Func(call.self, call.query)

\* the keys of the positions of the observed call that were absent at lookup
RECURSIVE MissedKeysFrom(_)
MissedKeysFrom(i) ==
    IF i > Len(call.query) THEN <<>>
    ELSE (IF HitAt(i) THEN <<>> ELSE <<KeyAt(i)>>) \o MissedKeysFrom(i + 1)

KeysIn(c) == {c[j].key : j \in DOMAIN c}

Evicted == KeysIn(storeOp.before) \ KeysIn(cache)

\* C13: the store never holds more entries than its capacity, and a put of a new key
\* into a full store removes exactly one resident entry and inserts the new one.
C13_CapacityBound ==
    /\ Len(cache) <= capacity
    /\ Cardinality(KeysIn(cache)) = Len(cache)
    /\ (storeOp.kind = "put" /\ storeOp.key \notin KeysIn(storeOp.before)
           /\ Len(storeOp.before) = capacity) =>
          /\ Cardinality(Evicted) = 1
          /\ Len(cache) = capacity
          /\ storeOp.key \in KeysIn(cache)
    /\ (storeOp.kind = "get" \/ storeOp.key \in KeysIn(storeOp.before)
           \/ Len(storeOp.before) < capacity) => Evicted = {}

C13_Witness ==
    /\ storeOp.kind = "put"
    /\ capacity = 2
    /\ Len(storeOp.before) = 2
    /\ Cardinality(Evicted) = 1

\* position in the log of the last use of key k (0 when it was never used)
LastUse(log, k) ==
    IF \E i \in DOMAIN log : log[i].key = k
    THEN CHOOSE i \in DOMAIN log : log[i].key = k /\ \A j \in DOMAIN log : log[j].key = k => j <= i
    ELSE 0

\* the uses made before the last operation
UsesBefore ==
    IF storeOp.kind = "put" \/ (storeOp.kind = "get" /\ storeOp.got # None)
    THEN SubSeq(useLog, 1, Len(useLog) - 1)
    ELSE useLog

\* C14: a get counts as a use: the entry a put evicts is the resident entry whose
\* last get or put is the oldest; with capacity 2, put A, put B, get A, put C
\* evicts B and keeps A.
C14_LeastRecentlyUsedEvicted ==
    /\ \A e \in Evicted : \A k \in KeysIn(storeOp.before) \ {e} :
          LastUse(UsesBefore, e) < LastUse(UsesBefore, k)
    /\ (capacity = 2 /\ useLog = <<[kind |-> "put", key |-> "A"], [kind |-> "put", key |-> "B"],
                                  [kind |-> "get", key |-> "A"], [kind |-> "put", key |-> "C"]>>)
          => /\ KeysIn(cache) = {"A", "C"}
             /\ (storeOp.kind = "put" => Evicted = {"B"})

C14_Witness ==
    /\ capacity = 2
    /\ useLog = <<[kind |-> "put", key |-> "A"], [kind |-> "put", key |-> "B"],
                  [kind |-> "get", key |-> "A"], [kind |-> "put", key |-> "C"]>>
    /\ Evicted = {"B"}

\* the words of phrase occur in text, consecutively, whatever their case
ContainsPhrase(text, phrase) ==
    \E k \in 0..(Len(text) - Len(phrase)) :
        \A i \in DOMAIN phrase : Lower(text[k + i]) = phrase[i]

\* the irrelevance phrases
Irrelevant(text) ==
    \/ ContainsPhrase(text, <<"does", "not", "provide">>)
    \/ ContainsPhrase(text, <<"does", "not", "contain">>)
    \/ ContainsPhrase(text, <<"no", "relevant", "information">>)

\* the records of all rounds so far, in order
RECURSIVE Flatten(_)
Flatten(history) ==
    IF history = <<>> THEN <<>> ELSE Head(history) \o Flatten(Tail(history))

AllRecords == Flatten(retrieval_history)

\* C15: with summarization enabled every context of a round is in the round's record
\* under summarized_contexts; one whose summary holds an irrelevance phrase has text
\* null there and is not among the aggregated contexts, every other one is among the
\* aggregated contexts with its summary as text.
C15_IrrelevantSummariesDropped ==
    summary_context =>
        /\ \A r \in DOMAIN AllRecords :
              /\ Len(AllRecords[r].summarized_contexts) = Len(AllRecords[r].contexts)
              /\ \A i \in DOMAIN AllRecords[r].summarized_contexts :
                    LET s == AllRecords[r].summarized_contexts[i]
                    IN /\ s.text # None => ~Irrelevant(s.text)
                       /\ s.text # None => \E j \in DOMAIN contexts : contexts[j] = s
        /\ \A j \in DOMAIN contexts : contexts[j].text # None

\* some retriever's result group for the query it was sent has neither field
SentMalformed(entry) == IndicesOf(SearchItem(entry.retriever, entry.query)) = None

\* C16: a result group with neither "indices" nor "urls" ends inner_search with an
\* error at once: nothing is returned and no further search is made; otherwise the
\* source of each context is the identifier at its position, from "indices" when
\* that field is present and from "urls" when it is not.
C16_MissingIdentifiersFatal ==
    /\ \A k \in DOMAIN searchLog :
          SentMalformed(searchLog[k]) =>
              /\ pc = "raised"
              /\ k = Len(searchLog)
              /\ returned = None
              /\ \A j \in DOMAIN searchLog :
                    (searchLog[j].retriever = searchLog[k].retriever) => j = k
    /\ (pc = "raised" /\ call.out.status = "ok") => SentMalformed(searchLog[Len(searchLog)])
    /\ \A r \in DOMAIN AllRecords :
          LET group == SearchItem(AllRecords[r].retriever, AllRecords[r].query)
              ids == IF "indices" \in DOMAIN group THEN group.indices ELSE group.urls
          IN /\ Len(AllRecords[r].contexts) = Len(group.texts)
             /\ \A i \in DOMAIN AllRecords[r].contexts :
                   AllRecords[r].contexts[i].source = ids[i]

C16_Witness ==
    /\ pc = "raised"
    /\ verify
    /\ query = Malformed
    /\ call.out.status = "ok"
    /\ Len(AllRecords) = 1
    /\ AllRecords[1].contexts[1].source = SourceOf("bing", Malformed, 1)

\* the contexts the last round of a need's history aggregated
LastRoundContexts(history) ==
    IF history = <<>> THEN <<>> ELSE RoundContexts(history[Len(history)])

\* the last rounds of the needs of a trace, need after need
RECURSIVE NeedContexts(_)
NeedContexts(retrieval) ==
    IF retrieval = <<>> THEN <<>>
    ELSE LastRoundContexts(Head(retrieval).retrieval_history)
         \o NeedContexts(Tail(retrieval))

\* the texts a retriever returns for a query, as contexts' (retriever, text) pairs
ReturnedBy(r, q) ==
    [i \in 1..NumTexts(r, q) |-> [retriever |-> r, text |-> TextOf(r, q, i)]]

RECURSIVE ReturnedByAll(_, _)
ReturnedByAll(rs, q) ==
    IF rs = <<>> THEN <<>> ELSE ReturnedBy(Head(rs), q) \o ReturnedByAll(Tail(rs), q)

RECURSIVE ReturnedForNeeds(_)
ReturnedForNeeds(needs) ==
    IF needs = <<>> THEN <<>>
    ELSE ReturnedByAll(Retrievers, Head(needs)) \o ReturnedForNeeds(Tail(needs))

\* C17: the evidence pool of search is the concatenation, in need order, of the
\* contexts each need's loop returned; within a need the contexts follow the
\* configured retriever order and within a retriever the order of its results.
C17_PoolInNeedOrder ==
    /\ pool = NeedContexts(search_track.retrieval)
    /\ result # None =>
          /\ result[1][1] = pool
          /\ result[1][2].retrieved_contexts = pool
          /\ [i \in DOMAIN pool |-> [retriever |-> pool[i].retriever,
                                     text |-> pool[i].text]]
                = ReturnedForNeeds(info_needed)

C17_Witness ==
    /\ result # None
    /\ Len(info_needed) = 2
    /\ Len(result[1][1]) = 5
    /\ result[1][1][1].query # result[1][1][5].query

\* C18: the trace of search has one retrieval entry per atomic need, in the order of
\* extraction, each holding the need's atomic query and the whole history that the
\* need's inner_search returned.
C18_OneEntryPerNeed ==
    /\ spc \in {"loop", "inner", "raised"} => Len(search_track.retrieval) = need - 1
    /\ \A n \in DOMAIN search_track.retrieval :
          /\ n \in DOMAIN info_needed
          /\ search_track.retrieval[n].atom_query = info_needed[n]
          /\ search_track.retrieval[n].retrieval_history # <<>>
          /\ \A t \in DOMAIN search_track.retrieval[n].retrieval_history :
                \A r \in DOMAIN search_track.retrieval[n].retrieval_history[t] :
                    search_track.retrieval[n].retrieval_history[t][r].query = info_needed[n]
    /\ (spc = "loop" /\ need > 1) =>
          /\ pc = "done"
          /\ search_track.retrieval[need - 1].retrieval_history = retrieval_history
    /\ result # None =>
          /\ Len(result[1][2].retrieval) = Len(info_needed)
          /\ result[1][2].retrieval = search_track.retrieval
          /\ result[1][2].question = question

C18_Witness ==
    /\ result # None
    /\ extract_info
    /\ info_needed = <<"q1 ", "q2">>
    /\ Len(result[1][2].retrieval) = 2
    /\ result[1][2].retrieval[1].atom_query = "q1 "
    /\ result[1][2].retrieval[2].atom_query = "q2"
    /\ Len(result[1][2].retrieval[1].retrieval_history) = 3
    /\ Len(result[1][2].retrieval[2].retrieval_history) = 1

\* C19: with extraction, rewriting, verification and summarization disabled, a
\* search of a question whose retrievers answer well-formed results returns; the
\* only need is the question, every retriever is searched once with the question
\* itself, and the pool holds one context per returned text, with the identifier at
\* the text's position as its source.
C19_PlainSearch ==
    (/\ spc \in {"done", "raised"}
     /\ ~extract_info /\ ~rewrite /\ ~verify /\ ~summary_context
     /\ question # Malformed) =>
        /\ result # None
        /\ info_needed = <<question>>
        /\ [k \in DOMAIN searchLog |-> [retriever |-> searchLog[k].retriever,
                                        query |-> searchLog[k].query]]
              = [k \in DOMAIN Retrievers |-> [retriever |-> Retrievers[k],
                                              query |-> question]]
        /\ Len(pool) = NumTexts("bing", question) + NumTexts("ddg", question)
        /\ \A i \in DOMAIN pool :
              \E j \in 1..NumTexts(pool[i].retriever, question) :
                  /\ pool[i].text = TextOf(pool[i].retriever, question, j)
                  /\ pool[i].source = SourceOf(pool[i].retriever, question, j)

\* the waits made for the query at position i
WaitsFor(i) == SelectSeq(waits, LAMBDA w : w.pos = i)

\* C20: _search calls search_item for a query at most retry_times times, and once
\* when retry_times <= 1; between two attempts it waits retry_delay; when the last
\* attempt fails, _search ends with the error and returns nothing, and what it
\* does return holds one result per query.
C20_BoundedRetry ==
    /\ \A i \in DOMAIN attempts :
          /\ attempts[i] <= (IF retry_times <= 1 THEN 1 ELSE retry_times)
          /\ \A w \in DOMAIN WaitsFor(i) : WaitsFor(i)[w].duration = retry_delay
          /\ Len(WaitsFor(i)) = (IF wpc = "call" /\ i = wpos THEN attempts[i]
                                 ELSE attempts[i] - 1)
    /\ wpc = "raised" =>
          /\ wreturned = None
          /\ attempts[wpos] = (IF retry_times <= 1 THEN 1 ELSE retry_times)
          /\ Len(wresults) = wpos - 1
    /\ wreturned # None =>
          /\ wpc = "done"
          /\ Len(wreturned[1]) = Len(wquery)
          /\ \A i \in DOMAIN wquery : wreturned[1][i] = WebItem(wquery[i])

C20_Witness ==
    /\ wpc = "raised"
    /\ retry_times = 3
    /\ attempts = <<1, 3>>
    /\ Len(waits) = 2
    /\ Len(wresults) = 1
    /\ wreturned = None

\* inner_search has returned
LoopEnded == pc = "done" /\ returned # None

\* the loop ended because the last allowed verification failed
Exhausted ==
    /\ verify
    /\ verifyLog # <<>>
    /\ ~ContainsYes(verifyLog[Len(verifyLog)].response)

\* C21 as stated: the number of rounds in the returned history tells how the loop
\* ended: it equals the maximum of 3 exactly when the loop was exhausted.
C21_CountTellsExhaustion ==
    (LoopEnded /\ verify) => (Len(returned[1][2]) = 3 <=> Exhausted)

\* C21: the returned history has one round per verification made; an exhausted loop
\* returns a history of exactly 3 rounds, and a history of fewer than 3 rounds comes
\* from a loop whose last verification passed (a history of 3 rounds comes from
\* either, the verification outcome is not part of it).
C21_ExhaustedHasMaxTurns ==
    (LoopEnded /\ verify) =>
        /\ Len(returned[1][2]) = Len(verifyLog)
        /\ Exhausted => (Len(returned[1][2]) = 3 /\ turn_num = 3)
        /\ Len(returned[1][2]) < 3 =>
              (ContainsYes(verifyLog[Len(verifyLog)].response)
               /\ turn_num = Len(returned[1][2]) - 1)
        /\ \A t \in DOMAIN returned[1][2] : \A k \in DOMAIN returned[1][2][t] :
              DOMAIN returned[1][2][t][k] \subseteq
                  {"retriever", "query", "contexts", "summarized_contexts"}

C21_Witness ==
    /\ LoopEnded
    /\ Exhausted
    /\ turn_num = 3
    /\ Len(returned[1][2]) = 3
    /\ Len(returned[1][2][3]) = Len(Retrievers)

\* the entries of a store, whatever their recency
EntriesOf(c) == {c[j] : j \in DOMAIN c}

ExpectedRecord(r, q) ==
    [retriever |-> r, query |-> q,
     contexts |-> BuildContexts(q, r, SearchItem(r, q).texts,
                                IndicesOf(SearchItem(r, q))[1])]

ExpectedRound(q) == [k \in DOMAIN Retrievers |-> ExpectedRecord(Retrievers[k], q)]

\* C23: answer collects one response and one trace per question, in the order of
\* the questions, and returns them once every question is done; without
\* extraction, rewriting and summaries the trace of a question is the one this
\* question gives by itself, wherever it stands in the batch: its rounds, its
\* evidence and its generation prompt hold nothing of another question.
C23_QuestionsIndependent ==
    /\ Len(answer_responses) = Len(search_tracks)
    /\ apc \in {"loop", "search", "raised"} => Len(search_tracks) = apos - 1
    /\ \A i \in DOMAIN search_tracks :
          LET track == search_tracks[i]
              q == questions[i]
          IN /\ track.question = q
             /\ Len(track.retrieval) = 1
             /\ track.retrieval[1].atom_query = q
             /\ track.retrieval[1].retrieval_history # <<>>
             /\ \A t \in DOMAIN track.retrieval[1].retrieval_history :
                   track.retrieval[1].retrieval_history[t] = ExpectedRound(q)
             /\ track.retrieved_contexts = RoundContexts(ExpectedRound(q))
             /\ track.generation_prompt = GenPrompt(q, RoundContexts(ExpectedRound(q)))
    /\ areturned # None =>
          /\ apc = "done"
          /\ areturned[1][1] = answer_responses
          /\ areturned[1][2] = search_tracks
          /\ Len(areturned[1][1]) = Len(questions)
          /\ Len(areturned[1][2]) = Len(questions)

C23_Witness ==
    /\ areturned # None
    /\ Len(questions) = 2
    /\ questions[1] # questions[2]
    /\ Len(areturned[1][2][1].retrieval[1].retrieval_history) = 3
    /\ Len(areturned[1][2][2].retrieval[1].retrieval_history) = 1
    /\ areturned[1][1][1] # areturned[1][1][2]

\* the turns of a log never go back
TurnsInOrder(log) ==
    \A i \in DOMAIN log : \A j \in DOMAIN log : i < j => log[i].turn <= log[j].turn

\* the entries of a log made in turn t
OfTurn(log, t) == SelectSeq(log, LAMBDA e : e.turn = t)

\* C24: the turns of a need run one after the other: as soon as a rewrite or a search
\* of turn t+1 has been made, turn t has searched every retriever (and rewritten and
\* summarized for each, when enabled) and its verification has been made; the
\* failing queries given to a rewrite of turn t+1 end with the query its retriever
\* was sent in turn t.
C24_TurnsDoNotInterleave ==
    /\ TurnsInOrder(searchLog) /\ TurnsInOrder(rewriteLog) /\ TurnsInOrder(verifyLog)
    /\ \A i \in DOMAIN searchLog :
          LET t == searchLog[i].turn - 1
          IN t >= 1 =>
                /\ Len(OfTurn(searchLog, t)) = Len(Retrievers)
                /\ rewrite => Len(OfTurn(rewriteLog, t)) = Len(Retrievers)
                /\ Len(OfTurn(verifyLog, t)) = 1
                /\ Len(retrieval_history[t]) = Len(Retrievers)
                /\ summary_context =>
                      \A k \in DOMAIN retrieval_history[t] :
                          "summarized_contexts" \in DOMAIN retrieval_history[t][k]
    /\ \A i \in DOMAIN rewriteLog :
          LET t == rewriteLog[i].turn - 1
          IN t >= 1 =>
                /\ Len(OfTurn(searchLog, t)) = Len(Retrievers)
                /\ Len(OfTurn(verifyLog, t)) = 1
                /\ rewriteLog[i].failing # <<>>
                /\ \E k \in DOMAIN searchLog :
                      /\ searchLog[k].turn = t
                      /\ searchLog[k].retriever = rewriteLog[i].retriever
                      /\ searchLog[k].query
                            = rewriteLog[i].failing[Len(rewriteLog[i].failing)]

C24_Witness ==
    /\ rewrite /\ verify /\ summary_context
    /\ Len(verifyLog) = 1
    /\ Len(rewriteLog) = Len(Retrievers) + 1
    /\ rewriteLog[Len(rewriteLog)].turn = 2
    /\ rewriteLog[Len(rewriteLog)].failing = <<"q2">>
    /\ Len(searchLog) = Len(Retrievers) + 1
    /\ searchLog[1].query = "q2"
    /\ pc = "retrieve"

\* the value stored under key k, None when the store holds no entry for it
StoredResult(k) ==
    IF \E j \in DOMAIN cache : cache[j].key = k
    THEN Some((CHOOSE e \in {cache[j] : j \in DOMAIN cache} : e.key = k).val[1])
    ELSE None

\* two workers ran the cached search at the same time for the same queries of the
\* same retriever, with caching enabled, and both have ended
RacedOnSameKeys(t, u) ==
    /\ t # u
    /\ Finished(threads[t]) /\ Finished(threads[u])
    /\ threads[t].concurrent /\ threads[u].concurrent
    /\ threads[t].keys # <<>>
    /\ threads[t].keys = threads[u].keys

\* C25: when two callers run the cached search concurrently for the same uncached
\* key, both return, and what each returns at a position is the entry the store
\* holds under the key of that position
C25_ConcurrentCallersAgree ==
    \A t, u \in Threads :
        RacedOnSameKeys(t, u) =>
            /\ threads[t].pc = "done"
            /\ Len(threads[t].out) = Len(threads[t].keys)
            /\ \A i \in DOMAIN threads[t].out :
                   StoredResult(threads[t].keys[i]) = Some(threads[t].out[i])

\* both workers of a race on the same uncached key have ended
C25_RaceEnded ==
    \E t, u \in Threads : RacedOnSameKeys(t, u)

\* round t of the running inner_search has searched every retriever
RoundCompleted(t) ==
    \/ t < Len(retrieval_history)
    \/ t = Len(retrieval_history) /\ pc \in {"verify", "while", "done"}

\* C26: a completed round's entry of the history holds exactly one record per
\* configured retriever, in configuration order; the record at index i carries the
\* id of the i-th retriever, the query that was sent to it in that round and the
\* contexts built from what it returned for that query. A round that is still
\* running holds the records of the retrievers searched so far, in the same order.
C26_OneRecordPerRetriever ==
    /\ \A t \in DOMAIN retrieval_history :
          /\ Len(retrieval_history[t]) <= Len(Retrievers)
          /\ RoundCompleted(t) => Len(retrieval_history[t]) = Len(Retrievers)
          /\ Len(OfTurn(searchLog, t)) >= Len(retrieval_history[t])
          /\ \A i \in DOMAIN retrieval_history[t] :
                LET rec == retrieval_history[t][i]
                    sent == OfTurn(searchLog, t)[i]
                IN /\ rec.retriever = Retrievers[i]
                   /\ sent.retriever = Retrievers[i]
                   /\ rec.query = sent.query
                   /\ rec.contexts =
                          BuildContexts(sent.query, Retrievers[i],
                                        SearchItem(Retrievers[i], sent.query).texts,
                                        IndicesOf(SearchItem(Retrievers[i],
                                                             sent.query))[1])
    /\ LoopEnded => returned[1][2] = retrieval_history

\* a loop with rewriting has returned two completed rounds, and a retriever of the
\* second round was sent a query other than the need
C26_Witness ==
    /\ LoopEnded /\ rewrite
    /\ Len(retrieval_history) = 2
    /\ Len(retrieval_history[1]) = Len(Retrievers)
    /\ Len(retrieval_history[2]) = Len(Retrievers)
    /\ retrieval_history[2][2].query # query

\* C27: the contexts inner_search returns are the aggregated contexts of its last
\* round, the ones handed to the last verification (the passing one, or the third
\* on exhaustion): the contexts of the rounds before it are not carried into them,
\* while the returned history holds every round that was run.
C27_ReturnsLastRoundContexts ==
    LoopEnded =>
        LET evidence == returned[1][1]
            history == returned[1][2]
        IN /\ history = retrieval_history
           /\ Len(history) = Cardinality(SearchedTurns)
           /\ history # <<>>
           /\ evidence = contexts
           /\ evidence = RoundContexts(history[Len(history)])
           /\ verify =>
                 /\ Len(verifyLog) = Len(history)
                 /\ evidence = verifyLog[Len(verifyLog)].contexts
                 /\ \A t \in DOMAIN verifyLog :
                       /\ verifyLog[t].turn = t
                       /\ verifyLog[t].contexts = RoundContexts(history[t])
                       /\ t < Len(verifyLog) => ~ContainsYes(verifyLog[t].response)

\* a loop has returned after a failed first round and a second round whose
\* contexts differ from those of the first
C27_Witness ==
    /\ LoopEnded /\ verify
    /\ Len(returned[1][2]) = 2
    /\ returned[1][1] # <<>>
    /\ RoundContexts(returned[1][2][1]) # <<>>
    /\ returned[1][1] # RoundContexts(returned[1][2][1])

\* a step that enters inner_search, and one that enters search()
EntersInnerSearch == pc \in {"idle", "done", "raised"} /\ pc' = "while"
EntersSearch == spc \in {"idle", "done", "raised"} /\ spc' = "loop"

\* C28: round records are append-only. While the loop of a need runs, every step
\* leaves the records of its completed rounds as they are (retriever id, query,
\* contexts, summarized contexts) and at their place in the history; while search()
\* runs, every step leaves the histories collected for the earlier needs as they
\* are, and the history collected for a need is the one its loop returned.
C28_RecordsAppendOnly ==
    [][ /\ ~EntersInnerSearch =>
              \A t \in DOMAIN retrieval_history :
                  RoundCompleted(t) =>
                      /\ t \in DOMAIN retrieval_history'
                      /\ retrieval_history'[t] = retrieval_history[t]
        /\ ~EntersSearch =>
              /\ \A j \in DOMAIN search_track.retrieval :
                     /\ j \in DOMAIN search_track'.retrieval
                     /\ search_track'.retrieval[j] = search_track.retrieval[j]
              /\ Len(search_track'.retrieval) > Len(search_track.retrieval) =>
                     /\ Len(search_track'.retrieval) = Len(search_track.retrieval) + 1
                     /\ search_track'.retrieval[Len(search_track'.retrieval)]
                            .retrieval_history = retrieval_history
      ]_vars

\* the loop of the second need is in its second round, after the first need's loop
\* returned a history of several rounds with summarized contexts
C28_Witness ==
    /\ spc = "inner" /\ need = 2 /\ summary_context
    /\ Len(search_track.retrieval) = 1
    /\ Len(search_track.retrieval[1].retrieval_history) >= 2
    /\ search_track.retrieval[1].retrieval_history[1][1].summarized_contexts # <<>>
    /\ Len(retrieval_history) = 2
    /\ Len(retrieval_history[1]) = Len(Retrievers)
    /\ pc = "verify"

\* the rewrites made in the first round of the running loop
FirstRoundRewrites == OfTurn(rewriteLog, 1)

\* C29: the loops of different needs share no failure history: every rewrite of the
\* first round of a need's loop is given that need and an empty list of failing
\* queries, whatever the loops of the earlier needs of the question went through;
\* in a later round the list holds one query per failed round of this loop.
C29_FirstRoundHasNoFailures ==
    rewrite =>
        \A i \in DOMAIN rewriteLog :
            /\ rewriteLog[i].info = query
            /\ Len(rewriteLog[i].failing) = rewriteLog[i].turn - 1
            /\ rewriteLog[i].turn = 1 => rewriteLog[i].failing = <<>>

\* the first round of the second need's loop has rewritten for every retriever,
\* after the loop of the first need ended with three failed rounds
C29_Witness ==
    /\ rewrite /\ spc = "inner" /\ need = 2
    /\ Len(search_track.retrieval) = 1
    /\ Len(search_track.retrieval[1].retrieval_history) = 3
    /\ Len(FirstRoundRewrites) = Len(Retrievers)
    /\ \A i \in DOMAIN FirstRoundRewrites : FirstRoundRewrites[i].failing = <<>>

ParamsOf(kw) == {kw[k] : k \in DOMAIN kw}

\* C31: the key is a function of the retriever configuration, the query and the
\* other keyword parameters that does not depend on the order in which the
\* parameters are given: two computations give the same key exactly when they have
\* the same configuration, the same query and the same parameter values.
C31_KeyIdentifiesArguments ==
    \A i \in DOMAIN keyed : \A j \in DOMAIN keyed :
        (keyed[i].key = keyed[j].key) <=>
            /\ keyed[i].cfg = keyed[j].cfg
            /\ keyed[i].query = keyed[j].query
            /\ ParamsOf(keyed[i].kw) = ParamsOf(keyed[j].kw)

\* two keys were computed for the same arguments given in different orders
C31_Witness ==
    /\ Len(keyed) = 2
    /\ Len(keyed[1].kw) = 2
    /\ keyed[1].kw # keyed[2].kw
    /\ ParamsOf(keyed[1].kw) = ParamsOf(keyed[2].kw)
    /\ keyed[1].cfg = keyed[2].cfg /\ keyed[1].query = keyed[2].query
    /\ keyed[1].key = keyed[2].key

\* C32: summarization leaves the contexts a retriever produced as they were: in
\* every round record each context still has the retrieved text, equal to its
\* full_text; the summary, or the null of an irrelevant one, is only in the copy
\* held under summarized_contexts, which agrees with the original in every other
\* field.
C32_SummaryLeavesContexts ==
    \A r \in DOMAIN AllRecords :
        LET rec == AllRecords[r]
        IN /\ rec.contexts = ExpectedRecord(rec.retriever, rec.query).contexts
           /\ \A i \in DOMAIN rec.contexts :
                 rec.contexts[i].text = rec.contexts[i].full_text
           /\ ("summarized_contexts" \in DOMAIN rec) <=> summary_context
           /\ summary_context =>
                 /\ Len(rec.summarized_contexts) = Len(rec.contexts)
                 /\ \A i \in DOMAIN rec.summarized_contexts :
                       /\ rec.summarized_contexts[i].full_text
                              = rec.contexts[i].full_text
                       /\ rec.summarized_contexts[i].source = rec.contexts[i].source
                       /\ rec.summarized_contexts[i].query = rec.contexts[i].query
                       /\ rec.summarized_contexts[i].retriever
                              = rec.contexts[i].retriever
                       /\ rec.summarized_contexts[i].text # rec.contexts[i].text

\* a record holds two summarized contexts, one nulled and one with its summary
C32_Witness ==
    /\ summary_context
    /\ \E r \in DOMAIN AllRecords :
          /\ Len(AllRecords[r].summarized_contexts) = 2
          /\ AllRecords[r].summarized_contexts[1].text = None
          /\ AllRecords[r].summarized_contexts[2].text # None
          /\ Len(AllRecords[r].contexts) = 2

\* C33: with extraction enabled, a response that is a numbered list of k items
\* "[n] <text>", one per line or several on a line, gives exactly k needs, in list
\* order, each the text of its item; with extraction disabled the only need is the
\* question itself.
C33_ListParsedItemByItem ==
    /\ parsed.extract => parsed.info_needed = parsed.items
    /\ ~parsed.extract => parsed.info_needed = <<parsed.question>>

SearchingNothing ==
    /\ extract_info
    /\ spc = "loop"
    /\ info_needed = <<>>

\* C36: when extraction is enabled and yields no need, the only step search() takes
\* is its return: no retriever is searched, nothing is rewritten, verified or
\* summarized, the cache is not touched, the evidence pool returned is empty and so
\* is the retrieval list of the returned trace.
C36_NoNeedNoCalls ==
    [][ SearchingNothing =>
            /\ spc' = "done"
            /\ UNCHANGED <<loopVars, cacheVars>>
            /\ result' = Some(<< <<>>, [question |-> question, retrieval |-> <<>>,
                                        retrieved_contexts |-> <<>>] >>)
      ]_vars

\* a search whose extraction gave no need has returned, after a search of an
\* earlier question went through its retrievers
C36_Witness ==
    /\ extract_info /\ spc = "done"
    /\ info_needed = <<>>
    /\ result # None
    /\ result[1][1] = <<>>
    /\ searchLog # <<>>

\* a list is a permutation of 0..n-1
IsPermutation(list, n) ==
    /\ Len(list) = n
    /\ Elems(list) = 0..(n - 1)

\* C37: whatever the model responds, _rank_piece returns a permutation of 0..k-1
\* for its k candidates, and the index list of _rank is a permutation of 0..n-1
\* for its n candidates at every point: when the ranking starts, after every window
\* step and when it is returned.
C37_IndicesStayPermutation ==
    /\ IsPermutation(ranking.piece, ranking.piece_n)
    /\ IsPermutation(ranking.indices, ranking.n)

\* the positions of the windows handed to _rank_piece
Windowed ==
    UNION {ranking.windows[j][1]..(ranking.windows[j][2] - 1) :
               j \in DOMAIN ranking.windows}

\* C38: when _rank returns, every candidate position has been in at least one
\* window that was handed to _rank_piece.
C38_EveryPositionWindowed ==
    ranking.pc = "done" => Windowed = 0..(ranking.n - 1)

\* the last call of attach_document
LastAttach == assistant.attached[Len(assistant.attached)]

\* C39: after any sequence of attach_document calls the retriever holds exactly the
\* chunks of the document the last call attached, and nothing when the last call
\* attached none (no path given, or the parse failed) or when no call was made;
\* an answer asked of an empty retriever returns an empty context list and calls
\* neither the retriever nor the reranker.
C39_RetrieverHoldsLastDocument ==
    /\ assistant.attached = <<>> => assistant.passages = <<>>
    /\ assistant.attached # <<>> =>
          assistant.passages =
              IF LastAttach.outcome = "attached"
              THEN ChunksOf(assistant.chunker, LastAttach.path[1])
              ELSE <<>>
    /\ (assistant.out # None /\ assistant.out[1].before = <<>>) =>
          /\ assistant.out[1].status = "ok"
          /\ assistant.out[1].contexts = <<>>
          /\ assistant.out[1].searched = 0
          /\ assistant.out[1].ranked = 0

\* a second document was attached after a first one, by an assistant that had
\* answered a question while its retriever was empty
C39_Witness ==
    /\ Len(assistant.attached) = 2
    /\ assistant.attached[1] = [path |-> Some("d1"), outcome |-> "attached"]
    /\ assistant.attached[2] = [path |-> Some("d2"), outcome |-> "attached"]
    /\ assistant.passages = Chunk("d2")
    /\ assistant.out # None
    /\ assistant.out[1].before = <<>>
    /\ assistant.out[1].searched = 0

====
